---- MODULE Spec2Model ----
(***************************************************************************)
(* Hybrid retrieval and ranking engine of rag-policy-match.                *)
(*                                                                         *)
(* Scores are Python floats in the source.  They are modelled as           *)
(* fixed-point numbers: an integer s stands for the score s / Unit.        *)
(* A candidate (models.RetrievalResult) is a record; the keys of its       *)
(* metadata dict that the modelled code reads or writes are fields.        *)
(***************************************************************************)
EXTENDS Integers, Sequences, FiniteSets, TLC

VARIABLES
    results,      \* _deduplicate_and_merge: the list passed in
    merged,       \* _deduplicate_and_merge: the list returned
    dpc,          \* position of the deduplicate-and-merge call
    sel_candidates,  \* auto_select_reranker: candidates
    sel_complexity,  \* auto_select_reranker: query_complexity
    selected,        \* auto_select_reranker: returned RerankerType
    rerank_request,  \* RerankRequest handed to a reranker
    rerank_env,      \* what the collaborators of this rerank call do
    rerank_result,   \* RerankResult of the call
    rerank_again,    \* RerankResult of reranking the returned list again
    rpc,             \* position of the rerank calls
    adv_request,             \* AdvancedRetriever.retrieve: the AdvancedQueryRequest
    query_understanding, \* retrieve: result of _enhance_query_understanding
    returned,            \* what each retrieval call of the request returned
    all_results,         \* _multi_strategy_retrieval: all_results before the merge
    raw_results,         \* retrieve: raw_results
    reranking,           \* retrieve: the reranker selected and whether it succeeded
    response,            \* retrieve: the AdvancedRetrievalResponse
    pc,                  \* position of retrieve
    query_request,         \* HybridRetriever.retrieve: the QueryRequest
    hybrid_understanding,  \* HybridRetriever.retrieve: query_understanding
    vector_results,        \* HybridRetriever.retrieve: vector_results
    keyword_results,       \* HybridRetriever.retrieve: keyword_results
    unique_results,        \* _intelligent_fusion: unique_results, scored and sorted
    processed_results,     \* HybridRetriever.retrieve: the list returned
    channel_failed,        \* the searches of this request that ended in their except branch
    hpc,                   \* position of HybridRetriever.retrieve
    hier_input,           \* build_hierarchical_chunks: policy_chunks of the latest call
    multi_chunks,         \* build_hierarchical_chunks: the list the latest call returned
    hierarchy_map,        \* HierarchicalIndexManager.hierarchy_map
    reverse_hierarchy,    \* HierarchicalIndexManager.reverse_hierarchy
    hier_builds,          \* number of build_hierarchical_chunks calls made
    hier_context,         \* what the latest get_hierarchy_context returned
    bm25_indexers,        \* HierarchicalIndexManager.bm25_indexers
    tfidf_indexers,       \* HierarchicalIndexManager.tfidf_indexers
    level_indexes,        \* HierarchicalIndexManager.level_indexes
    index_build,          \* the thread in build_multi_representation_index
    index_search,         \* the thread in hierarchical_search
    intent_query,         \* _extract_intents: the patterns the query matches
    intents,              \* _extract_intents: (primary_intent, secondary_intents)
    opt_input,            \* _generate_optimized_queries: its arguments
    opt_queries,          \* _generate_optimized_queries: the list returned
    opt_pc,               \* position of _generate_optimized_queries
    split_content,        \* _split_long_chunk: content
    split_chunks,         \* _split_long_chunk: chunks
    split_start,          \* _split_long_chunk: start
    split_prev,           \* _split_long_chunk: start and end of the previous iteration
    split_pc,             \* position of _split_long_chunk
    saved_file,           \* what save_index last pickled to the index file
    latest_chunks,        \* the chunks of the latest build or load of the manager
    persist_ops,          \* number of build, save and load calls made
    singleton,            \* the module globals behind the get_* accessors
    constructed,          \* number of constructor calls made per global
    thread_pc,            \* position of each thread in its accessor call
    thread_got            \* what each thread's accessor call returned

dedupVars == <<results, merged, dpc>>
selectVars == <<sel_candidates, sel_complexity, selected>>
rerankVars == <<rerank_request, rerank_env, rerank_result, rerank_again, rpc>>

retrieveVars == <<adv_request, query_understanding, returned, all_results, raw_results,
                  reranking, response, pc>>

hybridVars == <<query_request, hybrid_understanding, vector_results, keyword_results,
                unique_results, processed_results, channel_failed, hpc>>

hierarchyVars == <<hier_input, multi_chunks, hierarchy_map, reverse_hierarchy,
                   hier_builds, hier_context>>

indexVars == <<bm25_indexers, tfidf_indexers, level_indexes, index_build, index_search>>

intentVars == <<intent_query, intents>>
variantVars == <<opt_input, opt_queries, opt_pc>>
splitVars == <<split_content, split_chunks, split_start, split_prev, split_pc>>
persistVars == <<saved_file, latest_chunks, persist_ops>>
singletonVars == <<singleton, constructed, thread_pc, thread_got>>

utilityVars == <<intentVars, variantVars, splitVars, persistVars, singletonVars>>

vars == <<dedupVars, selectVars, rerankVars, retrieveVars, hybridVars, hierarchyVars,
          indexVars, utilityVars>>

\* the variables of the components that take no part in a specification
IdleDedup == results = <<>> /\ merged = <<>> /\ dpc = "idle"
IdleSelect == sel_candidates = <<>> /\ sel_complexity = "idle" /\ selected = "idle"
IdleRerank ==
    /\ rerank_request = "idle" /\ rerank_env = "idle"
    /\ rerank_result = "idle" /\ rerank_again = "idle" /\ rpc = "idle"
IdleRetrieve ==
    /\ adv_request = "idle" /\ query_understanding = "idle" /\ returned = "idle"
    /\ all_results = <<>> /\ raw_results = <<>> /\ reranking = "idle"
    /\ response = "idle" /\ pc = "idle"
IdleHybrid ==
    /\ query_request = "idle" /\ hybrid_understanding = "idle"
    /\ vector_results = <<>> /\ keyword_results = <<>> /\ unique_results = <<>>
    /\ processed_results = <<>> /\ channel_failed = {} /\ hpc = "idle"
IdleHierarchy ==
    /\ hier_input = <<>> /\ multi_chunks = <<>> /\ hierarchy_map = <<>>
    /\ reverse_hierarchy = <<>> /\ hier_builds = 0 /\ hier_context = "idle"
IdleIndex ==
    /\ bm25_indexers = <<>> /\ tfidf_indexers = <<>> /\ level_indexes = <<>>
    /\ index_build = "idle" /\ index_search = "idle"
IdleIntent == intent_query = "idle" /\ intents = "idle"
IdleVariant == opt_input = "idle" /\ opt_queries = <<>> /\ opt_pc = "idle"
IdleSplit ==
    /\ split_content = "idle" /\ split_chunks = <<>> /\ split_start = 0
    /\ split_prev = "idle" /\ split_pc = "idle"
IdlePersist == saved_file = "idle" /\ latest_chunks = "idle" /\ persist_ops = 0
IdleSingleton ==
    /\ singleton = "idle" /\ constructed = "idle"
    /\ thread_pc = "idle" /\ thread_got = "idle"
IdleUtility == IdleIntent /\ IdleVariant /\ IdleSplit /\ IdlePersist /\ IdleSingleton

(***************************************************************************)
(* Bounds of the model.                                                    *)
(***************************************************************************)
MaxResults == 3      \* longest candidate list given to deduplicate-and-merge
NumChunkIds == 2     \* distinct chunk ids among those candidates
MaxScore == 3        \* candidate scores given to it are 1..MaxScore

(***************************************************************************)
(* Generic helpers on sequences.                                           *)
(***************************************************************************)
Range(s) == {s[i] : i \in 1..Len(s)}

Min2(a, b) == IF a <= b THEN a ELSE b

Max2(a, b) == IF a >= b THEN a ELSE b

\* s[:n] of Python for n >= 0
Take(s, n) == SubSeq(s, 1, Min2(n, Len(s)))

\* list.sort(key=lambda x: x.score, reverse=True): a stable sort, equal
\* scores keep their relative input order.  SortRank is the position the
\* element at index i is moved to.
SortRank(s) ==
    [i \in 1..Len(s) |->
        1 + Cardinality({j \in 1..Len(s) :
                            \/ s[j].score > s[i].score
                            \/ s[j].score = s[i].score /\ j < i})]

SortByScoreDesc(s) ==
    LET rank == SortRank(s) IN
    [p \in 1..Len(s) |-> s[CHOOSE i \in 1..Len(s) : rank[i] = p]]

IsSortedDesc(s) == \A i \in 1..(Len(s) - 1) : s[i].score >= s[i + 1].score

ChunkIds(s) == {s[i].chunk_id : i \in 1..Len(s)}

(***************************************************************************)
(* AdvancedRetriever._deduplicate_and_merge                                *)
(***************************************************************************)
\* The retrieval sources of the orchestrator; "none" is a candidate whose
\* metadata has no 'retrieval_source' key.
RetrievalSources == {"hybrid", "hierarchical", "multi_representation"}

\* result.metadata.get('retrieval_source', 'unknown')
SourceOf(result) ==
    IF result.retrieval_source = "none" THEN "unknown" ELSE result.retrieval_source

\* index in the merged list of the entry with this chunk id, 0 when absent
SeenIndex(mergedSoFar, cid) ==
    IF \E i \in 1..Len(mergedSoFar) : mergedSoFar[i].chunk_id = cid
    THEN CHOOSE i \in 1..Len(mergedSoFar) : mergedSoFar[i].chunk_id = cid
    ELSE 0

\* one iteration of the loop with the mutant that never raises the score
MergeOneKeepFirst(mergedSoFar, result) ==
    LET i == SeenIndex(mergedSoFar, result.chunk_id) IN
    IF i # 0 THEN mergedSoFar
    ELSE Append(mergedSoFar,
                [result EXCEPT !.retrieval_sources = {SourceOf(result)}])

\* one iteration of the loop over results (lines 527-540)
MergeOne(mergedSoFar, result) ==
    LET i == SeenIndex(mergedSoFar, result.chunk_id) IN
    IF i # 0
    THEN IF result.score > mergedSoFar[i].score
         THEN [mergedSoFar EXCEPT
                  ![i].score = result.score,
                  ![i].retrieval_sources = @ \cup {SourceOf(result)}]
         ELSE mergedSoFar
    ELSE Append(mergedSoFar,
                [result EXCEPT !.retrieval_sources = {SourceOf(result)}])

\* the loop over results[lo..hi], starting from mergedSoFar: the iterations
\* of the first half of the range, then those of the second half on the
\* list the first half has produced
RECURSIVE MergeLoop(_, _, _, _)
MergeLoop(mergedSoFar, rs, lo, hi) ==
    IF lo > hi THEN mergedSoFar
    ELSE IF lo = hi THEN MergeOne(mergedSoFar, rs[lo])
    ELSE LET mid == (lo + hi) \div 2
             firstHalf == MergeLoop(mergedSoFar, rs, lo, mid)
         IN IF Len(firstHalf) > 0 THEN MergeLoop(firstHalf, rs, mid + 1, hi)
            ELSE firstHalf

DeduplicateAndMerge(rs) == SortByScoreDesc(MergeLoop(<<>>, rs, 1, Len(rs)))

(***************************************************************************)
(* Specification SpecDedup: deduplicate-and-merge on arbitrary input.      *)
(***************************************************************************)
DedupCandidates ==
    [chunk_id : 1..NumChunkIds,
     score : 1..MaxScore,
     retrieval_source : RetrievalSources \cup {"none"},
     retrieval_sources : {{}}]

SeqsUpTo(S, n) == UNION {[1..k -> S] : k \in 0..n}

InitDedup ==
    /\ results \in SeqsUpTo(DedupCandidates, MaxResults)
    /\ merged = <<>>
    /\ dpc = "call"
    /\ IdleSelect /\ IdleRerank /\ IdleRetrieve /\ IdleHybrid /\ IdleHierarchy /\ IdleIndex /\ IdleUtility

DoDeduplicateAndMerge ==
    /\ dpc = "call"
    /\ merged' = DeduplicateAndMerge(results)
    /\ dpc' = "done"
    /\ UNCHANGED <<results, selectVars, rerankVars, retrieveVars, hybridVars, hierarchyVars, indexVars, utilityVars>>

NextDedup == DoDeduplicateAndMerge

SpecDedup == InitDedup /\ [][NextDedup]_vars

\* the input candidates that share a chunk id
Duplicates(rs, cid) == {i \in 1..Len(rs) : rs[i].chunk_id = cid}

MaxScoreOf(rs, cid) ==
    CHOOSE m \in {rs[i].score : i \in Duplicates(rs, cid)} :
        \A i \in Duplicates(rs, cid) : rs[i].score <= m

\* C1: the merged output holds each chunk id of the input exactly once, with
\* the maximum score among the input candidates of that chunk id, and is
\* sorted by score in descending order.
DedupMaxScoreSorted ==
    dpc = "done" =>
        /\ ChunkIds(merged) = ChunkIds(results)
        /\ \A i, j \in 1..Len(merged) :
              merged[i].chunk_id = merged[j].chunk_id => i = j
        /\ \A i \in 1..Len(merged) :
              merged[i].score = MaxScoreOf(results, merged[i].chunk_id)
        /\ IsSortedDesc(merged)

\* a later duplicate with a higher score was merged, next to another chunk
DedupMaxScoreSortedWitness ==
    /\ dpc = "done"
    /\ Len(merged) = 2
    /\ \E i, j \in 1..Len(results) :
          /\ i < j
          /\ results[i].chunk_id = results[j].chunk_id
          /\ results[i].score < results[j].score

\* C2: the source tags of each merged entry are the union of the source tags
\* of all input candidates with its chunk id.
DedupSourcesAreUnion ==
    dpc = "done" =>
        \A i \in 1..Len(merged) :
            merged[i].retrieval_sources =
                {SourceOf(results[k]) : k \in Duplicates(results, merged[i].chunk_id)}

(***************************************************************************)
(* AdvancedReranker.auto_select_reranker                                   *)
(***************************************************************************)
RerankerTypes == {"cross_encoder", "llm_rerank", "rule_based", "multi_stage"}

Complexities == {"simple", "moderate", "complex"}

\* mutant: the first threshold is exclusive
AutoSelectExclusive(candidates, query_complexity) ==
    LET num_candidates == Len(candidates) IN
    IF num_candidates < 5 THEN "llm_rerank"
    ELSE IF num_candidates <= 20 /\ query_complexity = "complex" THEN "multi_stage"
    ELSE IF num_candidates <= 50 THEN "cross_encoder"
    ELSE "rule_based"

auto_select_reranker(candidates, query_complexity) ==
    LET num_candidates == Len(candidates) IN
    IF num_candidates <= 5 THEN "llm_rerank"
    ELSE IF num_candidates <= 20 /\ query_complexity = "complex" THEN "multi_stage"
    ELSE IF num_candidates <= 50 THEN "cross_encoder"
    ELSE "rule_based"

(***************************************************************************)
(* Specification SpecAutoSelect: auto_select_reranker on candidate lists   *)
(* of every length up to MaxSelectCandidates.                              *)
(***************************************************************************)
MaxSelectCandidates == 52

\* n candidates with chunk ids first..first+n-1, scores descending from top
\* in steps of step, all with the same content
Block(first, n, top, step, content, source) ==
    [i \in 1..n |->
        [chunk_id |-> first + i - 1,
         score |-> top - (i - 1) * step,
         content |-> content,
         retrieval_source |-> source,
         retrieval_sources |-> {}]]

InitAutoSelect ==
    /\ sel_candidates \in {Block(1, n, 9000, 100, 1, "none") : n \in 0..MaxSelectCandidates}
    /\ sel_complexity \in Complexities
    /\ selected = "none"
    /\ IdleDedup /\ IdleRerank /\ IdleRetrieve /\ IdleHybrid /\ IdleHierarchy /\ IdleIndex /\ IdleUtility

DoAutoSelect ==
    /\ selected = "none"
    /\ selected' = auto_select_reranker(sel_candidates, sel_complexity)
    /\ UNCHANGED <<sel_candidates, sel_complexity, dedupVars, rerankVars, retrieveVars, hybridVars, hierarchyVars, indexVars, utilityVars>>

NextAutoSelect == DoAutoSelect

SpecAutoSelect == InitAutoSelect /\ [][NextAutoSelect]_vars

Unit == 10000

\* a * num / den in fixed point, rounded down
MulDiv(a, num, den) == (a * num) \div den

ContentProfiles ==
    << \* 1: a short text without any query keyword
       [len |-> 30, exact |-> FALSE, kw |-> {}, occ |-> 0, title_kw |-> {},
        structured |-> FALSE, section |-> "", ce |-> 1000],
       \* 2: the query verbatim in a numbered clause of "application conditions"
       [len |-> 150, exact |-> TRUE, kw |-> {1, 2}, occ |-> 2, title_kw |-> {1, 2},
        structured |-> TRUE, section |-> "application_conditions", ce |-> 9000],
       \* 3: a medium-length text that mentions one keyword once, late
       [len |-> 600, exact |-> FALSE, kw |-> {1}, occ |-> 1, title_kw |-> {},
        structured |-> FALSE, section |-> "contact_info", ce |-> 4000],
       \* 4: an over-long text with both keywords in its first 100 characters
       [len |-> 1200, exact |-> FALSE, kw |-> {1, 2}, occ |-> 1, title_kw |-> {1, 2},
        structured |-> FALSE, section |-> "", ce |-> 6000],
       \* 5: an empty content string
       [len |-> 0, exact |-> FALSE, kw |-> {}, occ |-> 0, title_kw |-> {},
        structured |-> FALSE, section |-> "", ce |-> 0] >>

Profile(candidate) == ContentProfiles[candidate.content]

(***************************************************************************)
(* RuleBasedReranker                                                       *)
(***************************************************************************)
\* rules["policy_section_preferences"], in tenths; 10 when the section has none.
\* The section labels are written in English here (the source has them in
\* Chinese).
SectionPreference(section) ==
    CASE section = "application_conditions" -> 15
      [] section = "service_object" -> 14
      [] section = "support_content" -> 13
      [] section = "application_process" -> 12
      [] section = "contact_info" -> 11
      [] OTHER -> 10

\* _calculate_length_score
CalculateLengthScore(length) ==
    IF length < 50 THEN MulDiv(Unit, 8, 10)
    ELSE IF length > 1000 THEN MulDiv(Unit, 9, 10)
    ELSE IF length <= 200 THEN Unit
    ELSE Unit - MulDiv(Unit - MulDiv(Unit, 9, 10), length - 200, 1000 - 200)

\* _has_title_match: title_keywords >= len(query_keywords) * 0.5
HasTitleMatch(query_keywords, p) ==
    2 * Cardinality(p.title_kw \cap query_keywords) >= Cardinality(query_keywords)

\* the division by len(content) in _calculate_rule_score raises
\* ZeroDivisionError on an empty content
RuleScoreRaises(candidate) == Profile(candidate).len = 0

\* `if applies: score *= num / den`
TimesIf(applies, score, num, den) == IF applies THEN MulDiv(score, num, den) ELSE score

\* _calculate_rule_score, for a content on which it does not raise
CalculateRuleScore(query_keywords, candidate) ==
    LET p == Profile(candidate)
        n == Cardinality(query_keywords)
        keyword_matches == Cardinality(p.kw \cap query_keywords)
        occurrences == keyword_matches * p.occ
        s1 == TimesIf(p.exact, Unit, 15, 10)
        s2 == TimesIf(keyword_matches > 0, s1, 10 * n + 12 * keyword_matches, 10 * n)
        s3 == TimesIf(100 * occurrences > p.len, s2, 13, 10)
        s4 == MulDiv(s3, CalculateLengthScore(p.len), Unit)
        s5 == TimesIf(p.structured, s4, 14, 10)
        s6 == MulDiv(s5, SectionPreference(p.section), 10)
    IN TimesIf(HasTitleMatch(query_keywords, p), s6, 16, 10)

\* combined_score = 0.7 * candidate.score + 0.3 * rule_score
RuleBlend(query_keywords, candidate) ==
    [candidate EXCEPT
        !.score = (7 * candidate.score + 3 * CalculateRuleScore(query_keywords, candidate))
                      \div 10]

\* a list sorted in place and returned cut to top_k
SortedOutcome(sorted, top_k, method) ==
    [reranked_results |-> Take(sorted, top_k), method_used |-> method,
     success |-> TRUE, raised |-> FALSE, cands |-> sorted]

\* index of the first candidate on which the scoring loop raises, 0 if none
FirstRaising(candidates) ==
    IF \E i \in 1..Len(candidates) : RuleScoreRaises(candidates[i])
    THEN CHOOSE i \in 1..Len(candidates) :
            /\ RuleScoreRaises(candidates[i])
            /\ \A j \in 1..(i - 1) : ~RuleScoreRaises(candidates[j])
    ELSE 0

\* the candidates after the scoring loop, which stops at the candidate at
\* index k when k # 0: those before it hold their combined score
RuleScored(query, candidates, k) ==
    [i \in 1..Len(candidates) |->
        IF k = 0 \/ i < k THEN RuleBlend(query.keywords, candidates[i])
        ELSE candidates[i]]

\* the RerankResult of RuleBasedReranker.rerank once the loop has ended:
\* the scored list sorted and cut, or the fallback of the except branch
RuleBasedOutcome(scored, top_k, completed) ==
    IF completed
    THEN SortedOutcome(SortByScoreDesc(scored), top_k, "rule_based")
    ELSE [reranked_results |-> Take(scored, top_k), method_used |-> "fallback",
          success |-> FALSE, raised |-> FALSE, cands |-> scored]

\* RuleBasedReranker.rerank.  The candidates are scored in place and the list
\* is sorted in place: `cands` is the list object passed in, as it is after
\* the call.  env.keywords = FALSE: _extract_keywords raises (jieba missing).
RuleBasedRerank(query, candidates, top_k, env) ==
    IF candidates = <<>>
    THEN [reranked_results |-> <<>>, method_used |-> "rule_based",
          success |-> TRUE, raised |-> FALSE, cands |-> candidates]
    ELSE IF ~env.keywords
    THEN [reranked_results |-> Take(candidates, top_k), method_used |-> "fallback",
          success |-> FALSE, raised |-> FALSE, cands |-> candidates]
    ELSE RuleBasedOutcome(RuleScored(query, candidates, FirstRaising(candidates)),
                          top_k, FirstRaising(candidates) = 0)

(***************************************************************************)
(* Python numbers used as slice bounds: an int or a float.  `twice` is     *)
(* twice the value, so that top_k * 1.5 is exact.                          *)
(***************************************************************************)
IntNum(n) == [twice |-> 2 * n, float |-> FALSE]

\* request.top_k * 1.5 is a float whatever top_k is
TimesOneAndAHalf(n) == [twice |-> 3 * n, float |-> TRUE]

\* min(a, b) of Python returns a unless b < a
MinNum(a, b) == IF b.twice < a.twice THEN b ELSE a

\* candidates[:bound] raises TypeError when bound is a float
SliceRaises(bound) == bound.float

Slice(s, bound) == Take(s, bound.twice \div 2)

(***************************************************************************)
(* CrossEncoderReranker.rerank                                             *)
(***************************************************************************)
\* new_score = 0.7 * float(scores[i]) + 0.3 * candidate.score
CrossEncoderBlend(candidate) ==
    [candidate EXCEPT !.score = (7 * Profile(candidate).ce + 3 * candidate.score) \div 10]

\* env.ce_loaded: a model was loaded; env.ce_predict: model.predict returns.
\* raised = TRUE: the call ends with an exception instead of a RerankResult
\* (the slice in the fallback is outside the try block, or inside the except
\* handler).
CrossEncoderFallback(cs, top_k) ==
    IF SliceRaises(top_k)
    THEN [reranked_results |-> <<>>, method_used |-> "raised",
          success |-> FALSE, raised |-> TRUE, cands |-> cs]
    ELSE [reranked_results |-> Slice(cs, top_k), method_used |-> "fallback",
          success |-> FALSE, raised |-> FALSE, cands |-> cs]

\* the end of the try block once every candidate holds its new score: the
\* sorted copy is cut, and the slice raises into the except handler
CrossEncoderOutcome(scored, top_k) ==
    IF SliceRaises(top_k) THEN CrossEncoderFallback(scored, top_k)
    ELSE [reranked_results |-> Slice(SortByScoreDesc(scored), top_k),
          method_used |-> "cross_encoder",
          success |-> TRUE, raised |-> FALSE, cands |-> scored]

CrossEncoderRerank(query, candidates, top_k, env) ==
    IF ~env.ce_loaded \/ candidates = <<>> \/ ~env.ce_predict
    THEN CrossEncoderFallback(candidates, top_k)
    ELSE CrossEncoderOutcome([i \in 1..Len(candidates) |-> CrossEncoderBlend(candidates[i])],
                             top_k)

(***************************************************************************)
(* LLMReranker                                                             *)
(***************************************************************************)
LLM_RERANK_BATCH_SIZE == 5

\* What the language model does with one batch: the call fails ("fail"), or
\* it answers and _parse_llm_rerank_response finds in the answer
\*   "unparsed"  no ranking line at all
\*   "ranked"    rank i for the i-th candidate of the batch
\*   "reversed"  rank n+1-i for the i-th of n candidates
\*   "last_only" rank 1 for the last candidate and nothing for the others
\*   "from_zero" rank i-1 for the i-th candidate
LLMOutcomes == {"fail", "unparsed", "ranked", "reversed", "last_only", "from_zero"}

Unranked == 999

\* reranked_map.get(chunk_id, 999) for the i-th of n candidates of a batch
GetLLMRank(outcome, i, n) ==
    CASE outcome = "ranked" -> i
      [] outcome = "reversed" -> n + 1 - i
      [] outcome = "last_only" -> IF i = n THEN 1 ELSE Unranked
      [] outcome = "from_zero" -> i - 1
      [] OTHER -> Unranked

\* sorted(original_batch, key=get_llm_rank): stable, ascending.  The elements
\* are pairs <<candidate, rank>>.
RECURSIVE InsertByRank(_, _)
InsertByRank(sorted, x) ==
    IF sorted = <<>> THEN <<x>>
    ELSE IF sorted[Len(sorted)][2] <= x[2] THEN Append(sorted, x)
    ELSE Append(InsertByRank(SubSeq(sorted, 1, Len(sorted) - 1), x), sorted[Len(sorted)])

RECURSIVE SortByRank(_)
SortByRank(s) ==
    IF s = <<>> THEN <<>>
    ELSE InsertByRank(SortByRank(SubSeq(s, 1, Len(s) - 1)), s[Len(s)])

\* LLMBlend without the test llm_rank != 999: a candidate the response does
\* not rank is scored from rank 999
LLMBlendAlways(candidate, llm_rank) ==
    [candidate EXCEPT
        !.score = (6 * (Unit \div (llm_rank + 1)) + 4 * candidate.score) \div 10]

\* result.score = 0.6 * (1.0 / (llm_rank + 1)) + 0.4 * result.score
LLMBlend(candidate, llm_rank) ==
    IF llm_rank # Unranked
    THEN [candidate EXCEPT
             !.score = (6 * (Unit \div (llm_rank + 1)) + 4 * candidate.score) \div 10]
    ELSE candidate

\* _parse_llm_rerank_response
BlendRanked(sorted_results) ==
    [i \in 1..Len(sorted_results) |-> LLMBlend(sorted_results[i][1], sorted_results[i][2])]

ParseLLMRerankResponse(outcome, original_batch) ==
    BlendRanked(SortByRank([i \in 1..Len(original_batch) |->
                    <<original_batch[i], GetLLMRank(outcome, i, Len(original_batch))>>]))

\* _rerank_batch
RerankBatch(outcome, batch) ==
    IF outcome = "fail" THEN batch ELSE ParseLLMRerankResponse(outcome, batch)

\* env.llm is the list of outcomes of the language model; batch b gets the
\* outcome at position b (cyclically).
OutcomeOfBatch(env, b) == env.llm[((b - 1) % Len(env.llm)) + 1]

NumBatches(n) == (n + LLM_RERANK_BATCH_SIZE - 1) \div LLM_RERANK_BATCH_SIZE

BatchOf(candidates, b) ==
    SubSeq(candidates, (b - 1) * LLM_RERANK_BATCH_SIZE + 1,
           Min2(b * LLM_RERANK_BATCH_SIZE, Len(candidates)))

RECURSIVE AllReranked(_, _, _)
AllReranked(candidates, env, b) ==
    IF b = 0 THEN <<>>
    ELSE AllReranked(candidates, env, b - 1)
             \o RerankBatch(OutcomeOfBatch(env, b), BatchOf(candidates, b))

\* the candidates of `base`, each as it is in `newer` when it is there: the
\* rerankers assign to the score of the candidate objects, and every list
\* that holds the object sees the new score.  Chunk ids are distinct.
Overlay(base, newer) ==
    [i \in 1..Len(base) |->
        IF \E j \in 1..Len(newer) : newer[j].chunk_id = base[i].chunk_id
        THEN newer[CHOOSE j \in 1..Len(newer) : newer[j].chunk_id = base[i].chunk_id]
        ELSE base[i]]

\* LLMOutcome with every batch result added to all_reranked twice
LLMOutcomeExtendedTwice(candidates, all_reranked, top_k) ==
    [reranked_results |-> Take(SortByScoreDesc(all_reranked \o all_reranked), top_k),
     method_used |-> "llm_rerank", success |-> TRUE, raised |-> FALSE,
     cands |-> Overlay(candidates, all_reranked)]

\* LLMReranker.rerank
LLMOutcome(candidates, all_reranked, top_k) ==
    [reranked_results |-> Take(SortByScoreDesc(all_reranked), top_k),
     method_used |-> "llm_rerank", success |-> TRUE, raised |-> FALSE,
     cands |-> Overlay(candidates, all_reranked)]

LLMRerank(query, candidates, top_k, env) ==
    IF candidates = <<>>
    THEN [reranked_results |-> <<>>, method_used |-> "llm_rerank",
          success |-> TRUE, raised |-> FALSE, cands |-> candidates]
    ELSE LLMOutcome(candidates,
                    AllReranked(candidates, env, NumBatches(Len(candidates))), top_k)

(***************************************************************************)
(* MultiStageReranker.rerank                                               *)
(***************************************************************************)
RERANK_ENABLED == TRUE

LLM_RERANK_ENABLED == TRUE

\* the bound the second stage hands to the cross-encoder:
\* min(request.top_k * 1.5, len(candidates))
CrossEncoderStageBound(top_k, n) == MinNum(TimesOneAndAHalf(top_k), IntNum(n))

\* A stage of the cascade: whether it ran, the RerankResult of its reranker,
\* current_candidates after it (c), and the request's candidate list as the
\* in-place scoring of the stages so far has left it (cands).  The first
\* stage takes its reranker's list as it is; the later ones only when the
\* reranker reports success.
StageRecord(run, r, c_before, cands_before, needs_success) ==
    [run |-> run, r |-> r,
     c |-> IF run /\ (needs_success => r.success) THEN r.reranked_results ELSE c_before,
     cands |-> IF run THEN Overlay(cands_before, r.cands) ELSE cands_before]

\* stage 1: the rule-based reranker, when there are more than 2 * top_k
RuleStage(request, env) ==
    StageRecord(Len(request.candidates) > request.top_k * 2,
                RuleBasedRerank(request.query, request.candidates, request.top_k * 2, env),
                request.candidates, request.candidates, FALSE)

\* stage 2: the cross-encoder, when there are more than top_k
CrossEncoderStage(request, env, s1) ==
    StageRecord(RERANK_ENABLED /\ Len(s1.c) > request.top_k,
                CrossEncoderRerank(request.query, s1.c,
                                   CrossEncoderStageBound(request.top_k, Len(s1.c)), env),
                s1.c, s1.cands, TRUE)

\* stage 3: the language model, when there are at most 20
LLMStage(request, env, s2) ==
    StageRecord(LLM_RERANK_ENABLED /\ Len(s2.c) <= 20,
                LLMRerank(request.query, s2.c, request.top_k, env),
                s2.c, s2.cands, TRUE)

\* the RerankResult of the cascade from its stages
MultiStageOutcome(request, s1, s2, s3) ==
    IF s2.run /\ s2.r.raised
    THEN \* the exception of the second stage ends the cascade (lines 478-486)
         [reranked_results |-> Take(s2.cands, request.top_k), method_used |-> "fallback",
          success |-> FALSE, raised |-> FALSE, cands |-> s2.cands,
          stages |-> (IF s1.run THEN <<"rule_based">> ELSE <<>>)]
    ELSE [reranked_results |-> Take(s3.c, request.top_k), method_used |-> "multi_stage",
          success |-> TRUE, raised |-> FALSE, cands |-> s3.cands,
          stages |-> (IF s1.run THEN <<"rule_based">> ELSE <<>>)
                     \o (IF s2.run /\ s2.r.success THEN <<"cross_encoder">> ELSE <<>>)
                     \o (IF s3.run /\ s3.r.success THEN <<"llm_rerank">> ELSE <<>>)]

AfterCrossEncoderStage(request, env, s1, s2) ==
    MultiStageOutcome(request, s1, s2, LLMStage(request, env, s2))

AfterRuleStage(request, env, s1) ==
    AfterCrossEncoderStage(request, env, s1, CrossEncoderStage(request, env, s1))

MultiStageRerank(request, env) == AfterRuleStage(request, env, RuleStage(request, env))

(***************************************************************************)
(* AdvancedReranker.rerank                                                 *)
(***************************************************************************)
AdvancedRerank(request, env) ==
    CASE request.reranker_type = "multi_stage" -> MultiStageRerank(request, env)
      [] request.reranker_type = "rule_based" ->
            RuleBasedRerank(request.query, request.candidates, request.top_k, env)
                @@ [stages |-> <<>>]
      [] request.reranker_type = "cross_encoder" ->
            CrossEncoderRerank(request.query, request.candidates,
                               IntNum(request.top_k), env) @@ [stages |-> <<>>]
      [] request.reranker_type = "llm_rerank" ->
            LLMRerank(request.query, request.candidates, request.top_k, env)
                @@ [stages |-> <<>>]

(***************************************************************************)
(* Specification SpecRerank: AdvancedReranker.rerank on a sorted list of   *)
(* candidates with distinct chunk ids (what the orchestrator hands to it), *)
(* then once more on the list it returned.                                 *)
(***************************************************************************)
MaxRerankCandidates == 2   \* longest freely chosen candidate list
MaxBlockCandidates == 7    \* longest uniform candidate list
MaxRerankTopK == 3         \* largest top_k of a rerank request

NumProfiles == Len(ContentProfiles)

RerankScores == {4000, 7000, 10000}

\* the permutations of 1..n, as sequences
IdOrders(n) == {f \in [1..n -> 1..n] : \A i, j \in 1..n : f[i] = f[j] => i = j}

\* sorted lists of n candidates with the chunk ids 1..n in any order
FreeLists(n) ==
    {[i \in 1..n |-> [chunk_id |-> ids[i], score |-> sc[i], content |-> ct[i],
                      retrieval_source |-> "none", retrieval_sources |-> {}]] :
        <<ids, sc, ct>> \in
            IdOrders(n)
            \X {f \in [1..n -> RerankScores] : \A i \in 1..(n - 1) : f[i] >= f[i + 1]}
            \X [1..n -> 1..NumProfiles]}

BlockLists ==
    {Block(1, n, 9000, 500, c, "none") :
        n \in (MaxRerankCandidates + 1)..MaxBlockCandidates, c \in 1..NumProfiles}

RerankInputs == UNION {FreeLists(n) : n \in 0..MaxRerankCandidates} \cup BlockLists

Queries == {[keywords |-> {1, 2}], [keywords |-> {}]}

\* a collaborator that works as expected
GoodEnv == [keywords |-> TRUE, ce_loaded |-> TRUE, ce_predict |-> TRUE, llm |-> <<"ranked">>]

\* the collaborators a reranker type depends on, each working or failing
EnvsOf(reranker_type) ==
    CASE reranker_type = "rule_based" ->
            {[GoodEnv EXCEPT !.keywords = k] : k \in BOOLEAN}
      [] reranker_type = "cross_encoder" ->
            {[GoodEnv EXCEPT !.ce_loaded = l, !.ce_predict = p] : l, p \in BOOLEAN}
      [] reranker_type = "llm_rerank" ->
            {[GoodEnv EXCEPT !.llm = <<o>>] : o \in LLMOutcomes}
            \cup {[GoodEnv EXCEPT !.llm = os] :
                     os \in {<<"reversed", "fail">>, <<"unparsed", "reversed">>}}
      [] reranker_type = "multi_stage" ->
            {[keywords |-> k, ce_loaded |-> l, ce_predict |-> l, llm |-> <<o, "unparsed">>] :
                k, l \in BOOLEAN, o \in {"fail", "ranked", "reversed"}}

InitRerank ==
    /\ \E q \in Queries, cs \in RerankInputs, t \in RerankerTypes, k \in 1..MaxRerankTopK :
          /\ rerank_request = [query |-> q, candidates |-> cs, reranker_type |-> t, top_k |-> k]
          /\ rerank_env \in EnvsOf(t)
    /\ rerank_result = "none"
    /\ rerank_again = "none"
    /\ rpc = "call"
    /\ IdleDedup /\ IdleSelect /\ IdleRetrieve /\ IdleHybrid /\ IdleHierarchy /\ IdleIndex /\ IdleUtility

DoRerank ==
    /\ rpc = "call"
    /\ rerank_result' = AdvancedRerank(rerank_request, rerank_env)
    /\ rpc' = "once"
    /\ UNCHANGED <<rerank_request, rerank_env, rerank_again, dedupVars, selectVars, retrieveVars, hybridVars, hierarchyVars, indexVars, utilityVars>>

DoRerankAgain ==
    /\ rpc = "once"
    /\ rerank_again' =
          AdvancedRerank([rerank_request EXCEPT !.candidates = rerank_result.reranked_results],
                         rerank_env)
    /\ rpc' = "twice"
    /\ UNCHANGED <<rerank_request, rerank_env, rerank_result, dedupVars, selectVars, retrieveVars, hybridVars, hierarchyVars, indexVars, utilityVars>>

NextRerank == DoRerank \/ DoRerankAgain

SpecRerank == InitRerank /\ [][NextRerank]_vars

IdsOf(s) == [i \in 1..Len(s) |-> s[i].chunk_id]

\* candidates of equal score stand in ascending order of chunk id
TiesByChunkId(s) ==
    \A i \in 1..(Len(s) - 1) :
        s[i].score = s[i + 1].score => s[i].chunk_id < s[i + 1].chunk_id

\* C9: reranking a sorted, deduplicated list with RuleBased and reranking the
\* returned list again gives the same ordering, and candidates of equal
\* final score are ordered by chunk_id.
RuleBasedIdempotent ==
    (rpc = "twice" /\ rerank_request.reranker_type = "rule_based"
        /\ rerank_result.success /\ rerank_again.success) =>
        /\ IdsOf(rerank_again.reranked_results) = IdsOf(rerank_result.reranked_results)
        /\ TiesByChunkId(rerank_result.reranked_results)
        /\ TiesByChunkId(rerank_again.reranked_results)

\* C14: whenever a reranker reports success = FALSE, the candidates it
\* returns are the first top_k candidates of the input list, in input order
\* and with the scores they had on entry.
FailureReturnsInputPrefix ==
    (rpc # "call" /\ ~rerank_result.raised /\ ~rerank_result.success) =>
        rerank_result.reranked_results =
            Take(rerank_request.candidates, rerank_request.top_k)

\* the chunk ids of `out` are distinct and are chunk ids of `inp`, and `out`
\* is not longer than `inp`
SubCollection(out, inp) ==
    /\ Len(out) <= Len(inp)
    /\ \A i \in 1..Len(out) : \E j \in 1..Len(inp) : inp[j].chunk_id = out[i].chunk_id
    /\ \A i, j \in 1..Len(out) : out[i].chunk_id = out[j].chunk_id => i = j

\* the cascade has returned a RerankResult
MultiStageReturned ==
    rpc # "call" /\ rerank_request.reranker_type = "multi_stage"

\* C15: in the cascade the candidates after each stage are a sub-collection
\* of the candidates before it, and the final result has at most top_k
\* candidates, all of them candidates of the request.
StagesNeverGrow ==
    MultiStageReturned =>
        \A s1 \in {RuleStage(rerank_request, rerank_env)} :
            \A s2 \in {CrossEncoderStage(rerank_request, rerank_env, s1)} :
                \A s3 \in {LLMStage(rerank_request, rerank_env, s2)} :
                    /\ SubCollection(s1.c, rerank_request.candidates)
                    /\ SubCollection(s2.c, s1.c)
                    /\ SubCollection(s3.c, s2.c)
                    /\ rerank_result.success =>
                          rerank_result.reranked_results = Take(s3.c, rerank_request.top_k)
                    /\ Len(rerank_result.reranked_results) <= rerank_request.top_k
                    /\ SubCollection(rerank_result.reranked_results,
                                     rerank_request.candidates)

\* the cross-encoder and the language model have both run with success and
\* the result is shorter than the request's list
StagesNeverGrowWitness ==
    /\ MultiStageReturned
    /\ rerank_result.stages = <<"cross_encoder", "llm_rerank">>
    /\ rerank_result.reranked_results # <<>>
    /\ Len(rerank_result.reranked_results) < Len(rerank_request.candidates)

\* C16: in the cascade a stage runs only while there are more than top_k
\* candidates: the rule stage exactly when there are more than 2 * top_k,
\* the cross-encoder only when it is enabled and there are more than top_k,
\* the language model only when at most 20 and more than top_k remain.
StagesRunOnlyAboveTopK ==
    (MultiStageReturned /\ rerank_result.success) =>
        /\ ("rule_based" \in Range(rerank_result.stages))
              <=> Len(rerank_request.candidates) > 2 * rerank_request.top_k
        /\ "cross_encoder" \in Range(rerank_result.stages) =>
              /\ RERANK_ENABLED
              /\ Len(RuleStage(rerank_request, rerank_env).c) > rerank_request.top_k
        /\ "llm_rerank" \in Range(rerank_result.stages) =>
              \A n \in {Len(CrossEncoderStage(rerank_request, rerank_env,
                                               RuleStage(rerank_request, rerank_env)).c)} :
                  n <= 20 /\ n > rerank_request.top_k

\* the batches of the request whose call failed or whose response held no
\* ranking
FallbackBatches ==
    {b \in 1..NumBatches(Len(rerank_request.candidates)) :
        OutcomeOfBatch(rerank_env, b) \in {"fail", "unparsed"}}

\* position of the candidate with this chunk id in s, 0 if it is not there
IndexOfChunk(s, chunk_id) ==
    IF \E i \in 1..Len(s) : s[i].chunk_id = chunk_id
    THEN CHOOSE i \in 1..Len(s) : s[i].chunk_id = chunk_id
    ELSE 0

\* the candidates of `batch` hold in `after` the score they have in `batch`
ScoresKept(batch, after) ==
    \A i \in 1..Len(batch) :
        \A k \in 1..Len(after) :
            after[k].chunk_id = batch[i].chunk_id => after[k].score = batch[i].score

\* the candidates of `batch` that are in `result` stand there in the order
\* they have in `batch`
OrderKept(batch, result) ==
    \A i, j \in 1..Len(batch) :
        (/\ i < j
         /\ IndexOfChunk(result, batch[i].chunk_id) # 0
         /\ IndexOfChunk(result, batch[j].chunk_id) # 0) =>
            IndexOfChunk(result, batch[i].chunk_id) < IndexOfChunk(result, batch[j].chunk_id)

CrossEncoderStageBoundIsInt ==
    MultiStageReturned =>
        \A s1 \in {RuleStage(rerank_request, rerank_env)} :
            (RERANK_ENABLED /\ Len(s1.c) > rerank_request.top_k) =>
                /\ ~SliceRaises(CrossEncoderStageBound(rerank_request.top_k, Len(s1.c)))
                /\ CrossEncoderStageBound(rerank_request.top_k, Len(s1.c)).twice \div 2
                      = Min2((3 * rerank_request.top_k) \div 2, Len(s1.c))
                /\ rerank_result.success

(***************************************************************************)
(* AdvancedRetriever: the retrieval orchestrator                           *)
(***************************************************************************)
Strategies == {"simple", "hybrid", "hierarchical", "multi_rep", "full_advanced"}

\* the retrieval calls _multi_strategy_retrieval can make
RetrievalCalls == {"hybrid", "hierarchical", "dense", "sparse", "keyword"}

\* lines 203, 208-210, 215: the calls a request makes
Invoked(req) ==
    (IF req.strategy \in {"hybrid", "full_advanced"} THEN {"hybrid"} ELSE {})
    \cup (IF req.use_hierarchical_index
             /\ req.strategy \in {"hierarchical", "multi_rep", "full_advanced"}
          THEN {"hierarchical"} ELSE {})
    \cup (IF req.strategy \in {"multi_rep", "full_advanced"}
          THEN {"dense", "sparse", "keyword"} ELSE {})

\* the top_k each call asks its backend for (lines 240, 266, 287-295)
CallTopK(call, req) ==
    CASE call = "hybrid" -> Min2(req.top_k * 3, 100)
      [] call = "hierarchical" -> Min2(req.top_k * 2, 50)
      [] OTHER -> req.top_k

\* the tag put on the results of a call (lines 249, 272, 300)
CallTag(call) ==
    CASE call = "hybrid" -> "hybrid"
      [] call = "hierarchical" -> "hierarchical"
      [] OTHER -> "multi_representation"

\* models.QueryRequest: top_k is validated with ge=1, le=50
TopKCap == 50

QueryRequestValid(top_k) == top_k >= 1 /\ top_k <= TopKCap

\* query_understanding.get("basic_understanding", {}).get("entities", {})
\*     .get(key, [None])[0] if query_understanding else None
\* raises IndexError when the understanding holds an empty list
FirstEntityRaises(qu, key) == qu.status = "ok" /\ qu[key] = <<>>

\* _hybrid_retrieval, lines 238-243: building the QueryRequest raises
HybridRequestRaises(req, qu) ==
    \/ ~QueryRequestValid(CallTopK("hybrid", req))
    \/ FirstEntityRaises(qu, "industries")
    \/ FirstEntityRaises(qu, "enterprise_scales")

TagResults(rs, source) ==
    [i \in 1..Len(rs) |-> [rs[i] EXCEPT !.retrieval_source = source]]

\* mutant: a failure of one of the three multi-representation searches
\* drops the results of all three
ContributionAllOrNothing(ret, call) ==
    IF call \in {"dense", "sparse", "keyword"}
       /\ \E c \in {"dense", "sparse", "keyword"} : ret[c].status = "failed"
    THEN <<>>
    ELSE IF ret[call].status = "completed"
    THEN TagResults(ret[call].results, CallTag(call)) ELSE <<>>

\* what a call contributes to all_results: its results, tagged; nothing
\* when it was not made, was rejected or failed (each except returns [])
Contribution(ret, call) ==
    IF ret[call].status = "completed"
    THEN TagResults(ret[call].results, CallTag(call)) ELSE <<>>

\* all_results of _multi_strategy_retrieval, in the order of the extends
AllResults(ret) ==
    Contribution(ret, "hybrid") \o Contribution(ret, "hierarchical")
    \o Contribution(ret, "dense") \o Contribution(ret, "sparse")
    \o Contribution(ret, "keyword")

\* the complexity _advanced_reranking hands to auto_select_reranker
RerankComplexity(qu) == IF qu.status = "ok" THEN qu.complexity ELSE "moderate"

\* mutant: a failed rerank returns the candidates without the cut to top_k
RerankedOrFallbackUncut(rerank_res, top_k) ==
    IF rerank_res.success THEN rerank_res.reranked_results
    ELSE rerank_res.cands

\* _advanced_reranking: the list it returns
RerankedOrFallback(rerank_res, top_k) ==
    IF rerank_res.success THEN rerank_res.reranked_results
    ELSE Take(rerank_res.cands, top_k)

(***************************************************************************)
(* Specification SpecRetrieve: one request through                         *)
(* AdvancedRetriever.retrieve.  The backends answer each call with a       *)
(* failure or with a list of at most the requested number of candidates.   *)
(***************************************************************************)
MaxRequestTopK == 17

RequestTopKs == {2, MaxRequestTopK}

TheQuery == [keywords |-> {1, 2}]

\* AdvancedQueryRequest is a dataclass: top_k is any int the caller gives.
\* A request for one more than the cap of QueryRequest.
OverCapRequest ==
    [query |-> TheQuery, strategy |-> "multi_rep", use_reranking |-> FALSE,
     use_hierarchical_index |-> FALSE, use_query_understanding |-> FALSE,
     use_llm_enhancement |-> TRUE, top_k |-> TopKCap + 1]

Requests ==
    [query : {TheQuery},
     strategy : Strategies,
     use_reranking : BOOLEAN,
     use_hierarchical_index : BOOLEAN,
     use_query_understanding : BOOLEAN,
     use_llm_enhancement : {TRUE},
     top_k : RequestTopKs]
    \cup {OverCapRequest}

NoUnderstanding ==
    [status |-> "disabled", industries |-> <<>>, enterprise_scales |-> <<>>,
     complexity |-> "none"]

\* _enhance_query_understanding: it fails (the dict with "error"), or it
\* returns the entities and the complexity found in the query
UnderstandingOutcomes ==
    {[NoUnderstanding EXCEPT !.status = "failed"]}
    \cup {[status |-> "ok", industries |-> e[1], enterprise_scales |-> e[2],
           complexity |-> e[3]] :
            e \in {<<<<>>, <<>>, "moderate">>,
                   <<<<"biomedicine">>, <<>>, "complex">>,
                   <<<<"biomedicine">>, <<"startup">>, "moderate">>,
                   <<<<"biomedicine">>, <<"startup">>, "complex">>}}

\* the first chunk id, the highest score and the content of what a backend
\* returns for the query; the blocks of the calls overlap
CallFirstId(call) ==
    CASE call = "hybrid" -> 1
      [] call = "hierarchical" -> 2
      [] call = "dense" -> 1
      [] call = "sparse" -> 45
      [] call = "keyword" -> 50

CallTopScore(call) ==
    CASE call = "hybrid" -> 9000
      [] call = "hierarchical" -> 8000
      [] call = "dense" -> 9500
      [] call = "sparse" -> 7000
      [] call = "keyword" -> 10000

CallContent(call) ==
    CASE call = "hybrid" -> 2
      [] call = "hierarchical" -> 3
      [] call = "dense" -> 1
      [] call = "sparse" -> 4
      [] call = "keyword" -> 2

NotInvoked == [status |-> "not_invoked", results |-> <<>>]

\* the answers a backend can give to a call for at most limit candidates
CallOutcomes(call, limit) ==
    {[status |-> "failed", results |-> <<>>]}
    \cup {[status |-> "completed",
           results |-> Block(CallFirstId(call), n, CallTopScore(call), 100,
                             CallContent(call), "none")] :
            n \in {0, limit}}

InitRetrieve ==
    /\ adv_request \in Requests
    /\ query_understanding = NoUnderstanding
    /\ returned = [c \in RetrievalCalls |-> NotInvoked]
    /\ all_results = <<>>
    /\ raw_results = <<>>
    /\ reranking = [used |-> FALSE, reranker_type |-> "none", success |-> FALSE,
                    results |-> <<>>]
    /\ response = "none"
    /\ pc = "understand"
    /\ IdleDedup /\ IdleSelect /\ IdleRerank /\ IdleHybrid /\ IdleHierarchy /\ IdleIndex /\ IdleUtility

\* retrieve, step 1 (lines 116-118)
Understand ==
    /\ pc = "understand"
    /\ IF adv_request.use_query_understanding
       THEN query_understanding' \in UnderstandingOutcomes
       ELSE query_understanding' = NoUnderstanding
    /\ pc' = "retrieve"
    /\ UNCHANGED <<adv_request, returned, all_results, raw_results, reranking, response,
                   dedupVars, selectVars, rerankVars, hybridVars, hierarchyVars, indexVars, utilityVars>>

\* the answers the request can get to one of its calls
AnswersTo(call, req, qu) ==
    IF call \notin Invoked(req) THEN {NotInvoked}
    ELSE IF call = "hybrid" /\ HybridRequestRaises(req, qu)
    THEN {[status |-> "rejected", results |-> <<>>]}
    ELSE CallOutcomes(call, CallTopK(call, req))

\* retrieve, step 2: _multi_strategy_retrieval (lines 196-227)
MultiStrategyRetrieval ==
    /\ pc = "retrieve"
    /\ \E hy \in AnswersTo("hybrid", adv_request, query_understanding),
          hi \in AnswersTo("hierarchical", adv_request, query_understanding),
          de \in AnswersTo("dense", adv_request, query_understanding),
          sp \in AnswersTo("sparse", adv_request, query_understanding),
          kw \in AnswersTo("keyword", adv_request, query_understanding) :
          LET ret == [c \in RetrievalCalls |->
                         CASE c = "hybrid" -> hy
                           [] c = "hierarchical" -> hi
                           [] c = "dense" -> de
                           [] c = "sparse" -> sp
                           [] c = "keyword" -> kw]
          IN /\ returned' = ret
             /\ all_results' = AllResults(ret)
             /\ raw_results' = DeduplicateAndMerge(AllResults(ret))
    /\ pc' = "rerank"
    /\ UNCHANGED <<adv_request, query_understanding, reranking, response,
                   dedupVars, selectVars, rerankVars, hybridVars, hierarchyVars, indexVars, utilityVars>>

\* retrieve, step 3: _advanced_reranking (lines 123-130, 308-341)
AdvancedReranking ==
    /\ pc = "rerank"
    /\ IF adv_request.use_reranking /\ raw_results # <<>>
       THEN LET t == auto_select_reranker(raw_results, RerankComplexity(query_understanding))
                req == [query |-> adv_request.query, candidates |-> raw_results,
                        reranker_type |-> t, top_k |-> adv_request.top_k]
            IN \E env \in EnvsOf(t) :
                  \E r \in {AdvancedRerank(req, env)} :
                  /\ reranking' = [used |-> TRUE, reranker_type |-> t,
                                   success |-> r.success,
                                   results |-> RerankedOrFallback(r, adv_request.top_k)]
                  /\ raw_results' = r.cands
       ELSE /\ reranking' = [used |-> FALSE, reranker_type |-> "none", success |-> FALSE,
                             results |-> Take(raw_results, adv_request.top_k)]
            /\ UNCHANGED raw_results
    /\ pc' = "respond"
    /\ UNCHANGED <<adv_request, query_understanding, returned, all_results, response,
                   dedupVars, selectVars, rerankVars, hybridVars, hierarchyVars, indexVars, utilityVars>>

\* retrieve, steps 4 and 5 and the return (lines 132-150).  The language
\* model's summary is there or not; a failure of _llm_enhancement is caught.
Respond ==
    /\ pc = "respond"
    /\ \E summary \in (IF adv_request.use_llm_enhancement /\ reranking.results # <<>>
                       THEN BOOLEAN ELSE {FALSE}) :
          response' = [results |-> reranking.results,
                       llm_generated_summary |-> summary,
                       raw_results_count |-> Len(raw_results),
                       final_results_count |-> Len(reranking.results),
                       success |-> TRUE,
                       error |-> ""]
    /\ pc' = "done"
    /\ UNCHANGED <<adv_request, query_understanding, returned, all_results, raw_results,
                   reranking, dedupVars, selectVars, rerankVars, hybridVars, hierarchyVars, indexVars, utilityVars>>

NextRetrieve == Understand \/ MultiStrategyRetrieval \/ AdvancedReranking \/ Respond

SpecRetrieve == InitRetrieve /\ [][NextRetrieve]_vars

\* the calls of the request that ended with an exception
FailedCalls == {c \in RetrievalCalls : returned[c].status \in {"failed", "rejected"}}

\* the calls of the request that returned a list
CompletedCalls == {c \in RetrievalCalls : returned[c].status = "completed"}

\* every source invoked failed or gave no candidate
TotalFailure ==
    \A c \in Invoked(adv_request) : returned[c].status # "completed" \/ returned[c].results = <<>>

\* the candidate is in the list with this tag
HoldsTagged(rs, candidate, tag) ==
    \E j \in 1..Len(rs) :
        /\ rs[j].chunk_id = candidate.chunk_id
        /\ rs[j].score = candidate.score
        /\ rs[j].content = candidate.content
        /\ rs[j].retrieval_source = tag

\* C3: when at least one source is invoked and every source invoked fails or
\* yields no candidate, the response has success=false, no result and a
\* non-empty error; in every other case the response has success=true.
TotalFailureReported ==
    (pc = "done" /\ Invoked(adv_request) # {}) =>
        IF TotalFailure
        THEN response.success = FALSE /\ response.results = <<>> /\ response.error # ""
        ELSE response.success = TRUE

\* C4: when a call of the request has failed, every candidate returned by a
\* call that completed is in the input of the deduplicate-and-merge step,
\* under the tag of its source, and the response has success=true.
FailureDropsOnlyItsOwn ==
    (pc \in {"rerank", "respond", "done"} /\ FailedCalls # {}) =>
        /\ \A c \in CompletedCalls :
              \A i \in 1..Len(returned[c].results) :
                  HoldsTagged(all_results, returned[c].results[i], CallTag(c))
        /\ pc = "done" => response.success = TRUE

\* a multi-representation search has failed, another one and the
\* hierarchical search have returned candidates, and the response is there
FailureDropsOnlyItsOwnWitness ==
    /\ pc = "done"
    /\ returned["dense"].status = "failed"
    /\ returned["sparse"].status = "completed" /\ returned["sparse"].results # <<>>
    /\ returned["hierarchical"].status = "completed"
    /\ returned["hierarchical"].results # <<>>
    /\ Len(all_results) =
          Len(returned["sparse"].results) + Len(returned["hierarchical"].results)
          + Len(returned["keyword"].results)
    /\ response.success = TRUE

\* the number of distinct candidates the sources returned
UniqueCount == Cardinality(ChunkIds(all_results))

\* C6: the response holds exactly min(top_k, U) results for the U distinct
\* candidates of the request, whichever reranker was selected and whether it
\* succeeded or not.
ResponseHasMinTopKUnique ==
    pc = "done" => Len(response.results) = Min2(adv_request.top_k, UniqueCount)

\* a reranker was selected, failed, and the response was cut to top_k out of
\* more distinct candidates
ResponseHasMinTopKUniqueWitness ==
    /\ pc = "done"
    /\ reranking.used /\ ~reranking.success
    /\ UniqueCount > adv_request.top_k
    /\ Len(response.results) = adv_request.top_k

\* C7: every candidate of a response has a score within [0,1].
ResponseScoresInUnitInterval ==
    pc = "done" =>
        \A i \in 1..Len(response.results) :
            response.results[i].score >= 0 /\ response.results[i].score <= Unit

\* C23: whatever top_k the caller asks for, the response never holds more
\* than 50 results.
ResponseWithinTopKCap ==
    pc = "done" => Len(response.results) <= TopKCap

\* C27: for a request with strategy hybrid or full_advanced and a top_k
\* within 1..50, whatever query understanding gave, the hybrid retriever is
\* called: building its QueryRequest does not raise.
HybridRetrieverIsCalled ==
    (/\ pc \in {"rerank", "respond", "done"}
     /\ adv_request.strategy \in {"hybrid", "full_advanced"}
     /\ adv_request.top_k \in 1..TopKCap) =>
        returned["hybrid"].status \in {"completed", "failed"}

\* C28: whatever its strategy, a request makes at least one retrieval call.
EveryStrategyRetrieves ==
    pc \in {"rerank", "respond", "done"} =>
        \E c \in RetrievalCalls : returned[c].status # "not_invoked"

(***************************************************************************)
(* HybridRetriever                                                         *)
(*                                                                         *)
(* The indexed chunks are the entries of HybridCorpus; an entry says what  *)
(* the regular expressions and the word lists of the retriever find in the *)
(* content of the chunk, and what its policy metadata holds.  The scales   *)
(* and the industry are written in English here.                           *)
(***************************************************************************)
HybridCorpus ==
    << \* 1: a policy for start-ups, with its scope and its funding
       [strong_exclude |-> FALSE, soft_exclude |-> FALSE, startup_friendly |-> TRUE,
        industry_hits |-> 2, scope_words |-> TRUE, explicit_scope |-> TRUE,
        threshold_words |-> FALSE, fund_words |-> TRUE, amount_words |-> FALSE,
        apply_words |-> FALSE, scales |-> {"startup"}, industries |-> {"biomedicine"}],
       \* 2: a policy for listed companies, with its scope and its funding
       [strong_exclude |-> TRUE, soft_exclude |-> FALSE, startup_friendly |-> FALSE,
        industry_hits |-> 0, scope_words |-> TRUE, explicit_scope |-> TRUE,
        threshold_words |-> FALSE, fund_words |-> TRUE, amount_words |-> FALSE,
        apply_words |-> FALSE, scales |-> {"startup", "large"},
        industries |-> {"biomedicine"}],
       \* 3: a policy that names large enterprises, with the steps to apply
       [strong_exclude |-> FALSE, soft_exclude |-> TRUE, startup_friendly |-> FALSE,
        industry_hits |-> 4, scope_words |-> FALSE, explicit_scope |-> FALSE,
        threshold_words |-> TRUE, fund_words |-> FALSE, amount_words |-> TRUE,
        apply_words |-> TRUE, scales |-> {"large"}, industries |-> {}] >>

NumChunks == Len(HybridCorpus)

TextOf(result) == HybridCorpus[result.chunk_id]

\* config.ENTERPRISE_SCALES, in the order of the dict (two of its four scales)
EnterpriseScales == <<"startup", "large">>

\* _detect_enterprise_scale: the first scale of config.ENTERPRISE_SCALES with
\* a keyword in the query; "none" stands for None
DetectEnterpriseScale(query) ==
    IF \E i \in 1..Len(EnterpriseScales) : EnterpriseScales[i] \in query.scales
    THEN EnterpriseScales[CHOOSE i \in 1..Len(EnterpriseScales) :
                             /\ EnterpriseScales[i] \in query.scales
                             /\ \A j \in 1..(i - 1) : EnterpriseScales[j] \notin query.scales]
    ELSE "none"

\* the orders list(set(...)) can give to the elements of a set
OrdersOf(S) ==
    {f \in [1..Cardinality(S) -> S] : \A i, j \in 1..Cardinality(S) : f[i] = f[j] => i = j}

\* _generate_optimized_queries: the number of queries, at most 8
NumOptimizedQueries(u) ==
    LET extra == CASE u.intent = "check_eligibility" -> 3
                   [] u.intent = "get_funding" -> 3
                   [] u.intent = "find_policy" ->
                         Len(u.industries) + Len(u.enterprise_scales)
                   [] OTHER -> 0
    IN Min2(1 + extra + Min2(u.expanded, 5), 8)

\* _merge_filters with _build_smart_filters: the scales and the industries
\* the keyword search filters on; the explicit ones of the request win
MergeFilters(u, req) ==
    [enterprise_scales |-> IF req.enterprise_scale # "none" THEN {req.enterprise_scale}
                           ELSE Range(u.enterprise_scales),
     industries |-> IF req.industry # "none" THEN {req.industry}
                    ELSE Range(u.industries)]

\* ElasticsearchStore.search: the terms filters on the metadata of a chunk
\* (MilvusStore.search filters on policy_ids and chunk_type only)
Admitted(filters, chunk_id) ==
    /\ filters.enterprise_scales # {} =>
          filters.enterprise_scales \cap HybridCorpus[chunk_id].scales # {}
    /\ filters.industries # {} =>
          filters.industries \cap HybridCorpus[chunk_id].industries # {}

\* weight = 1.0 - (i * 0.1) for the i-th query, i from 0; result.score *= weight
ApplyQueryWeight(rs, i, source) ==
    [j \in 1..Len(rs) |->
        [rs[j] EXCEPT !.score = MulDiv(rs[j].score, 10 - i, 10), !.source = source]]

\* _deduplicate_results: the first result of each chunk id
DeduplicateResults(rs) ==
    LET first == {j \in 1..Len(rs) : \A i \in 1..(j - 1) : rs[i].chunk_id # rs[j].chunk_id}
        pos(j) == Cardinality({i \in first : i <= j})
    IN [p \in 1..Cardinality(first) |-> rs[CHOOSE j \in first : pos(j) = p]]

\* the results of the queries 0..(i - 1), weighted, in the order of the loop.
\* The backend answers the first query with main and each further query with
\* more, cut to the limit of the search.
RECURSIVE WeightedResults(_, _, _, _, _)
WeightedResults(main, more, limit, i, source) ==
    IF i = 0 THEN <<>>
    ELSE WeightedResults(main, more, limit, i - 1, source)
             \o ApplyQueryWeight(Take(IF i = 1 THEN main ELSE more, limit), i - 1, source)

\* _enhanced_vector_search and _enhanced_keyword_search
EnhancedSearch(main, more, num_queries, limit, top_k, source) ==
    Take(SortByScoreDesc(DeduplicateResults(
             WeightedResults(main, more, limit, num_queries, source))),
         top_k)

\* top_k of one Milvus search and of one Elasticsearch search
VectorLimit(top_k, num_queries) == Min2(top_k \div num_queries + 10, 20)

KeywordLimit(top_k, num_queries) == Min2(top_k \div num_queries + 5, 15)

\* _intelligent_fusion: vector_weight and keyword_weight, in tenths
FusionWeights(complexity) ==
    CASE complexity = "simple" -> [vector |-> 7, keyword |-> 3]
      [] complexity = "moderate" -> [vector |-> 6, keyword |-> 4]
      [] OTHER -> [vector |-> 5, keyword |-> 5]

\* k of the reciprocal rank fusion
RrfK == 60

\* index of the result with this chunk id in the list, 0 when it has none
PositionIn(rs, chunk_id) ==
    IF \E i \in 1..Len(rs) : rs[i].chunk_id = chunk_id
    THEN CHOOSE i \in 1..Len(rs) : rs[i].chunk_id = chunk_id
    ELSE 0

\* weight / (k + rank + 1) for the result at index position = rank + 1
RrfTerm(weight, position) ==
    IF position = 0 THEN 0 ELSE (weight * Unit) \div (10 * (RrfK + position))

\* mutant: rrf_scores[chunk_id] = ... in the second loop instead of +=
RrfScoreOverwritten(vector, keyword, weights, chunk_id) ==
    IF PositionIn(keyword, chunk_id) # 0
    THEN RrfTerm(weights.keyword, PositionIn(keyword, chunk_id))
    ELSE RrfTerm(weights.vector, PositionIn(vector, chunk_id))

\* rrf_scores[chunk_id] after the two loops over the ranked lists
RrfScore(vector, keyword, weights, chunk_id) ==
    RrfTerm(weights.vector, PositionIn(vector, chunk_id))
    + RrfTerm(weights.keyword, PositionIn(keyword, chunk_id))

\* _calculate_intent_boost
CalculateIntentBoost(result, intent) ==
    LET t == TextOf(result)
        boost ==
            CASE intent = "check_eligibility" ->
                    (IF t.scope_words THEN MulDiv(Unit, 3, 10) ELSE 0)
                    + (IF t.threshold_words THEN MulDiv(Unit, 2, 10) ELSE 0)
              [] intent = "get_funding" ->
                    (IF t.fund_words THEN MulDiv(Unit, 3, 10) ELSE 0)
                    + (IF t.amount_words THEN MulDiv(Unit, 2, 10) ELSE 0)
              [] intent = "get_requirements" ->
                    (IF t.apply_words THEN MulDiv(Unit, 3, 10) ELSE 0)
              [] OTHER -> 0
    IN Min2(boost, MulDiv(Unit, 5, 10))

\* IntelligentFusion over the results of the vector search only
IntelligentFusionVectorOnly(vector, keyword, u) ==
    LET weights == FusionWeights(u.complexity)
        unique == DeduplicateResults(vector)
        scored ==
            [i \in 1..Len(unique) |->
                LET rrf_score == RrfScore(vector, keyword, weights, unique[i].chunk_id)
                    intent_boost == CalculateIntentBoost(unique[i], u.intent)
                IN [unique[i] EXCEPT
                       !.score = (5 * rrf_score + 3 * unique[i].score + 2 * intent_boost)
                                 \div 10,
                       !.original_score = unique[i].score,
                       !.rrf_score = rrf_score,
                       !.intent_boost = intent_boost]]
    IN SortByScoreDesc(scored)

\* _intelligent_fusion: unique_results after the sort, before the cut to top_k
IntelligentFusion(vector, keyword, u) ==
    LET weights == FusionWeights(u.complexity)
        unique == DeduplicateResults(vector \o keyword)
        scored ==
            [i \in 1..Len(unique) |->
                LET rrf_score == RrfScore(vector, keyword, weights, unique[i].chunk_id)
                    intent_boost == CalculateIntentBoost(unique[i], u.intent)
                IN [unique[i] EXCEPT
                       !.score = (5 * rrf_score + 3 * unique[i].score + 2 * intent_boost)
                                 \div 10,
                       !.original_score = unique[i].score,
                       !.rrf_score = rrf_score,
                       !.intent_boost = intent_boost]]
    IN SortByScoreDesc(scored)

NotStronglyExcluded(result) == ~TextOf(result).strong_exclude

\* _smart_enterprise_scale_filter
SmartEnterpriseScaleFilter(rs, target_scale) ==
    IF target_scale # "startup" THEN rs
    ELSE LET kept == SelectSeq(rs, NotStronglyExcluded)
             penalised(r) == IF TextOf(r).soft_exclude
                             THEN [r EXCEPT !.score = MulDiv(r.score, 7, 10)] ELSE r
             boosted(r) == IF TextOf(r).startup_friendly
                           THEN [r EXCEPT !.score = MulDiv(r.score, 12, 10)] ELSE r
         IN [i \in 1..Len(kept) |-> boosted(penalised(kept[i]))]

\* _boost_industry_relevance: 0.1 for each keyword of the industries found in
\* the content, at most 0.3
BoostIndustryRelevance(rs, industries) ==
    LET hits(r) == IF "biomedicine" \in Range(industries)
                   THEN TextOf(r).industry_hits ELSE 0
    IN SortByScoreDesc(
           [i \in 1..Len(rs) |->
               IF hits(rs[i]) > 0
               THEN [rs[i] EXCEPT !.score = MulDiv(rs[i].score, 10 + Min2(hits(rs[i]), 3), 10)]
               ELSE rs[i]])

\* _smart_applicability_ranking
SmartApplicabilityRanking(rs, u) ==
    SortByScoreDesc(
        [i \in 1..Len(rs) |->
            IF u.intent = "check_eligibility" /\ TextOf(rs[i]).explicit_scope
            THEN [rs[i] EXCEPT !.score = MulDiv(rs[i].score, 115, 100)]
            ELSE rs[i]])

\* _intelligent_post_process
IntelligentPostProcess(rs, u, req) ==
    LET scaled ==
            IF u.enterprise_scales # <<>>
            THEN SmartEnterpriseScaleFilter(rs, u.enterprise_scales[1])
            ELSE IF DetectEnterpriseScale(req.query) # "none"
            THEN SmartEnterpriseScaleFilter(rs, DetectEnterpriseScale(req.query))
            ELSE rs
        relevant ==
            IF u.industries # <<>> THEN BoostIndustryRelevance(scaled, u.industries)
            ELSE scaled
    IN SmartApplicabilityRanking(relevant, u)

(***************************************************************************)
(* Specification SpecHybrid: one request through HybridRetriever.retrieve. *)
(* The two search backends answer a query with a ranked list of chunks of  *)
(* the corpus.                                                             *)
(***************************************************************************)
MaxHits == 2          \* longest answer of a backend to one query
MaxHybridTopK == 2    \* largest top_k of a QueryRequest

\* what the query processor finds in the text of a query: the scales and
\* the industries named, the complexity, the primary intent
HybridQueries ==
    {[scales |-> {}, industries |-> {}, complexity |-> "simple",
      intent |-> "find_policy"],
     [scales |-> {"startup"}, industries |-> {"biomedicine"}, complexity |-> "moderate",
      intent |-> "check_eligibility"],
     [scales |-> {"startup", "large"}, industries |-> {}, complexity |-> "complex",
      intent |-> "get_funding"],
     [scales |-> {"startup"}, industries |-> {}, complexity |-> "complex",
      intent |-> "find_policy"],
     [scales |-> {"large"}, industries |-> {"biomedicine"}, complexity |-> "simple",
      intent |-> "get_requirements"],
     [scales |-> {}, industries |-> {"biomedicine"}, complexity |-> "moderate",
      intent |-> "get_funding"]}

QueryRequests ==
    [query : HybridQueries,
     top_k : 1..MaxHybridTopK,
     enterprise_scale : {"none", "startup"},
     industry : {"none"}]

\* the cosine similarities of Milvus and the raw _score of Elasticsearch, from
\* the best hit down
BackendScores == [vector |-> 9000, keyword |-> 12000, step |-> 3000]


Hit(chunk_id, score) ==
    [chunk_id |-> chunk_id, score |-> score, source |-> "none",
     original_score |-> 0, rrf_score |-> 0, intent_boost |-> 0]

\* the ranked lists of at most n distinct chunks among ids: the scores go
\* down from top by the step, or all of them are top less the step
HitLists(ids, n, top) ==
    UNION {{[i \in 1..m |-> Hit(f[i], IF tied THEN top - BackendScores.step
                                      ELSE top - (i - 1) * BackendScores.step)] :
               f \in {g \in [1..m -> ids] : \A i, j \in 1..m : g[i] = g[j] => i = j},
               tied \in BOOLEAN} :
           m \in 0..n}

InitHybrid ==
    /\ query_request \in QueryRequests
    /\ hybrid_understanding = "none"
    /\ vector_results = <<>>
    /\ keyword_results = <<>>
    /\ unique_results = <<>>
    /\ processed_results = <<>>
    /\ channel_failed = {}
    /\ hpc = "process_query"
    /\ IdleDedup /\ IdleSelect /\ IdleRerank /\ IdleRetrieve /\ IdleHierarchy /\ IdleIndex /\ IdleUtility

\* retrieve, steps 1 to 3: process_query and the number of optimized queries
ProcessQuery ==
    /\ hpc = "process_query"
    /\ \E scales \in OrdersOf(query_request.query.scales),
          industries \in OrdersOf(query_request.query.industries),
          expanded \in {0, 1} :
          hybrid_understanding' =
              [enterprise_scales |-> scales, industries |-> industries,
               complexity |-> query_request.query.complexity,
               intent |-> query_request.query.intent,
               expanded |-> expanded]
    /\ hpc' = "vector_search"
    /\ UNCHANGED <<query_request, vector_results, keyword_results, unique_results,
                   processed_results, channel_failed, dedupVars, selectVars, rerankVars, retrieveVars, hierarchyVars, indexVars, utilityVars>>

\* retrieve, step 4: _enhanced_vector_search.  The embedding or a Milvus
\* search raises and the except branch returns [] (lines 193-195), or every
\* search answers.
EnhancedVectorSearch ==
    /\ hpc = "vector_search"
    /\ \/ /\ vector_results' = <<>>
          /\ channel_failed' = channel_failed \cup {"vector"}
       \/ /\ LET n == NumOptimizedQueries(hybrid_understanding)
                 top_k == query_request.top_k * 2
             IN \E main \in HitLists(1..NumChunks, MaxHits, BackendScores.vector),
                   more \in HitLists(1..NumChunks, 1, BackendScores.vector) :
                   vector_results' =
                       EnhancedSearch(main, more, n, VectorLimit(top_k, n), top_k, "vector")
          /\ UNCHANGED channel_failed
    /\ hpc' = "keyword_search"
    /\ UNCHANGED <<query_request, hybrid_understanding, keyword_results, unique_results,
                   processed_results, dedupVars, selectVars, rerankVars, retrieveVars, hierarchyVars, indexVars, utilityVars>>

\* retrieve, step 5: _enhanced_keyword_search.  An Elasticsearch search
\* raises and the except branch returns [] (lines 228-230), or every search
\* answers.
EnhancedKeywordSearch ==
    /\ hpc = "keyword_search"
    /\ \/ /\ keyword_results' = <<>>
          /\ channel_failed' = channel_failed \cup {"keyword"}
       \/ /\ LET n == NumOptimizedQueries(hybrid_understanding)
                 top_k == query_request.top_k * 2
                 filters == MergeFilters(hybrid_understanding, query_request)
                 admitted == {c \in 1..NumChunks : Admitted(filters, c)}
             IN \E main \in HitLists(admitted, MaxHits, BackendScores.keyword),
                   more \in HitLists(admitted, 1, BackendScores.keyword) :
                   keyword_results' =
                       EnhancedSearch(main, more, n, KeywordLimit(top_k, n), top_k,
                                      "keyword")
          /\ UNCHANGED channel_failed
    /\ hpc' = "fusion"
    /\ UNCHANGED <<query_request, hybrid_understanding, vector_results, unique_results,
                   processed_results, dedupVars, selectVars, rerankVars, retrieveVars, hierarchyVars, indexVars, utilityVars>>

\* retrieve, steps 6 and 7: _intelligent_fusion, its cut to top_k, and
\* _intelligent_post_process
FuseAndPostProcess ==
    /\ hpc = "fusion"
    /\ unique_results' =
          IntelligentFusion(vector_results, keyword_results, hybrid_understanding)
    /\ processed_results' =
          IntelligentPostProcess(
              Take(IntelligentFusion(vector_results, keyword_results, hybrid_understanding),
                   query_request.top_k),
              hybrid_understanding, query_request)
    /\ hpc' = "done"
    /\ UNCHANGED <<query_request, hybrid_understanding, vector_results, keyword_results,
                   channel_failed, dedupVars, selectVars, rerankVars, retrieveVars, hierarchyVars, indexVars, utilityVars>>

NextHybrid ==
    ProcessQuery \/ EnhancedVectorSearch \/ EnhancedKeywordSearch \/ FuseAndPostProcess

SpecHybrid == InitHybrid /\ [][NextHybrid]_vars

\* the scale of the request is startup: named in the query text, alone or
\* with other scales, or given as the explicit filter
ScaleIsStartup ==
    \/ "startup" \in query_request.query.scales
    \/ query_request.enterprise_scale = "startup"

\* C5: when the scale of the request is startup, no chunk whose content
\* matches a strong-exclude pattern is in the list retrieve returns.
StartupExcludesStrong ==
    (hpc = "done" /\ ScaleIsStartup) =>
        \A i \in 1..Len(processed_results) : ~TextOf(processed_results[i]).strong_exclude

\* the fused candidate a is in both ranked lists, b is in one of them only,
\* at a rank no better than the rank of a in that list
InBothAndInOne(a, b) ==
    LET va == PositionIn(vector_results, a.chunk_id)
        ka == PositionIn(keyword_results, a.chunk_id)
        vb == PositionIn(vector_results, b.chunk_id)
        kb == PositionIn(keyword_results, b.chunk_id)
    IN /\ va # 0 /\ ka # 0
       /\ \/ vb # 0 /\ kb = 0 /\ vb >= va
          \/ kb # 0 /\ vb = 0 /\ kb >= ka

\* C10: a candidate of both ranked lists has a strictly higher RRF score than
\* a candidate of only one list at a rank no better in that list, and a
\* strictly higher fused score when the two have the same original score and
\* the same intent boost.
FusionFavoursBothLists ==
    hpc = "done" =>
        \A i, j \in 1..Len(unique_results) :
            InBothAndInOne(unique_results[i], unique_results[j]) =>
                /\ unique_results[i].rrf_score > unique_results[j].rrf_score
                /\ (/\ unique_results[i].original_score = unique_results[j].original_score
                    /\ unique_results[i].intent_boost = unique_results[j].intent_boost)
                   => unique_results[i].score > unique_results[j].score

\* a fusion with such a pair of candidates, of equal original score and
\* intent boost, the one of a single list coming from the keyword search
FusionFavoursBothListsWitness ==
    /\ hpc = "done"
    /\ \E i, j \in 1..Len(unique_results) :
          /\ InBothAndInOne(unique_results[i], unique_results[j])
          /\ PositionIn(vector_results, unique_results[j].chunk_id) = 0
          /\ unique_results[i].original_score = unique_results[j].original_score
          /\ unique_results[i].intent_boost = unique_results[j].intent_boost
          /\ unique_results[i].intent_boost > 0
          /\ unique_results[i].score > unique_results[j].score

\* the results of the channel that answered, when exactly one has failed
WorkingChannelResults ==
    IF channel_failed = {"vector"} THEN keyword_results ELSE vector_results

None == "<None>"

\* the keys of a dict filled in the order of s: the elements of s without
\* those equal to an earlier one
Keys(s) ==
    LET first == {i \in 1..Len(s) : \A j \in 1..(i - 1) : s[j] # s[i]} IN
    [p \in 1..Cardinality(first) |->
        s[CHOOSE i \in first : Cardinality({j \in first : j < i}) = p - 1]]

RECURSIVE Flatten(_)
Flatten(ss) == IF ss = <<>> THEN <<>> ELSE Head(ss) \o Flatten(Tail(ss))

MultiRepresentationChunk(chunk_id, policy_id, level, section) ==
    [chunk_id |-> chunk_id, policy_id |-> policy_id, level |-> level,
     section |-> section, parent_id |-> None, children_ids |-> None]

\* _create_policy_level_chunks
CreatePolicyLevelChunks(policy_id, chunks) ==
    << MultiRepresentationChunk(policy_id \o "_policy_level", policy_id, "policy", None) >>

\* chunk.section or "default"
SectionOrDefault(section) == IF section = None \/ section = "" THEN "default" ELSE section

\* _create_section_level_chunks, from the keys of section_groups
SectionChunksOf(policy_id, labels) ==
    [k \in 1..Len(labels) |->
        MultiRepresentationChunk(policy_id \o "_section_" \o labels[k], policy_id,
                                 "section", labels[k])]

CreateSectionLevelChunks(policy_id, chunks) ==
    SectionChunksOf(policy_id,
                    Keys([i \in 1..Len(chunks) |-> SectionOrDefault(chunks[i].section)]))

\* the sentence-level chunks of one input chunk (lines 275-299)
SentenceChunksOf(chunk) ==
    IF chunk.parts > 1
    THEN [i \in 1..chunk.parts |->
            MultiRepresentationChunk(chunk.chunk_id \o "_sub_" \o ToString(i - 1),
                                     chunk.policy_id, "sentence", chunk.section)]
    ELSE << MultiRepresentationChunk(chunk.chunk_id, chunk.policy_id, "sentence",
                                     chunk.section) >>

\* _create_sentence_level_chunks
CreateSentenceLevelChunks(chunks) ==
    Flatten([i \in 1..Len(chunks) |-> SentenceChunksOf(chunks[i])])

\* related_sections (by_section = FALSE) and related_sentences (TRUE): the
\* ids of the chunks of the next level that belong to this parent
Related(parent, chunks, by_section) ==
    IdsOf(SelectSeq(chunks,
                    LAMBDA c : /\ c.policy_id = parent.policy_id
                               /\ (by_section => c.section = parent.section)))

\* hierarchy_map[parent].append(child); reverse_hierarchy[child] = parent.
\* h holds the two maps.
AddEdge(h, parent, child) ==
    [map |-> [k \in DOMAIN h.map \cup {parent} |->
                 IF k = parent
                 THEN Append(IF parent \in DOMAIN h.map THEN h.map[parent] ELSE <<>>, child)
                 ELSE h.map[k]],
     rev |-> [k \in DOMAIN h.rev \cup {child} |-> IF k = child THEN parent ELSE h.rev[k]]]

RECURSIVE AddEdges(_, _, _)
AddEdges(h, parent, children) ==
    IF children = <<>> THEN h
    ELSE AddEdges(AddEdge(h, parent, Head(children)), parent, Tail(children))

\* one of the two loops of _build_hierarchy_relations, on the maps
RECURSIVE LinkAll(_, _, _, _)
LinkAll(h, parents, chunks, by_section) ==
    IF parents = <<>> THEN h
    ELSE LinkAll(AddEdges(h, Head(parents).chunk_id,
                          Related(Head(parents), chunks, by_section)),
                 Tail(parents), chunks, by_section)

\* the same loop, on the children_ids of the parent chunks
WithChildren(parents, chunks, by_section) ==
    [i \in 1..Len(parents) |->
        [parents[i] EXCEPT !.children_ids = Related(parents[i], chunks, by_section)]]

\* one iteration of the loop over policy_groups (lines 203-214); b holds the
\* chunks built so far and the two maps
BuildGroup(b, policy_level_chunks, section_level_chunks, sentence_level_chunks) ==
    [chunks |-> b.chunks
                \o WithChildren(policy_level_chunks, section_level_chunks, FALSE)
                \o WithChildren(section_level_chunks, sentence_level_chunks, TRUE)
                \o sentence_level_chunks,
     h |-> LinkAll(LinkAll(b.h, policy_level_chunks, section_level_chunks, FALSE),
                   section_level_chunks, sentence_level_chunks, TRUE)]

GroupOf(policy_chunks, policy_id) ==
    SelectSeq(policy_chunks, LAMBDA c : c.policy_id = policy_id)

BuildGroupOf(b, policy_id, chunks) ==
    BuildGroup(b, CreatePolicyLevelChunks(policy_id, chunks),
               CreateSectionLevelChunks(policy_id, chunks),
               CreateSentenceLevelChunks(chunks))

RECURSIVE BuildGroups(_, _, _)
BuildGroups(b, policy_ids, policy_chunks) ==
    IF policy_ids = <<>> THEN b
    ELSE BuildGroups(BuildGroupOf(b, Head(policy_ids),
                                  GroupOf(policy_chunks, Head(policy_ids))),
                     Tail(policy_ids), policy_chunks)

\* build_hierarchical_chunks on a manager whose maps are h
BuildHierarchicalChunks(h, policy_chunks) ==
    BuildGroups([chunks |-> <<>>, h |-> h],
                Keys([i \in 1..Len(policy_chunks) |-> policy_chunks[i].policy_id]),
                policy_chunks)

\* get_hierarchy_context
GetHierarchyContext(h, chunk_id) ==
    [current_chunk |-> chunk_id,
     parent |-> IF chunk_id \in DOMAIN h.rev THEN h.rev[chunk_id] ELSE None,
     children |-> IF chunk_id \in DOMAIN h.map THEN h.map[chunk_id] ELSE <<>>,
     siblings |-> IF chunk_id \in DOMAIN h.rev /\ h.rev[chunk_id] \in DOMAIN h.map
                  THEN SelectSeq(h.map[h.rev[chunk_id]], LAMBDA cid : cid # chunk_id)
                  ELSE <<>>]

(***************************************************************************)
(* Specification SpecHierarchy: build_hierarchical_chunks called on one    *)
(* manager up to MaxBuilds times, on a corpus and then on the same corpus  *)
(* again or on a changed one, and get_hierarchy_context between the calls. *)
(***************************************************************************)
MaxCorpusChunks == 2   \* most input chunks of a corpus
MaxBuilds == 2         \* most calls of build_hierarchical_chunks

PolicyChunks(i) ==
    [chunk_id : {"c" \o ToString(i)},
     policy_id : {"P1", "P2"},
     section : {None, "A"},
     parts : {1, 2}]

\* the corpora of n input chunks, with distinct chunk ids
CorporaOf(n) == {c \in [1..n -> UNION {PolicyChunks(i) : i \in 1..n}] :
                    \A i \in 1..n : c[i] \in PolicyChunks(i)}

\* an input chunk whose id is the id the manager gives to its section chunk
SectionNamedChunk ==
    <<[chunk_id |-> "P1_section_default", policy_id |-> "P1", section |-> None,
       parts |-> 1]>>

HierarchyCorpora ==
    UNION {CorporaOf(n) : n \in 0..MaxCorpusChunks} \cup {SectionNamedChunk}

\* the corpus of the next build: any corpus for the first one; then the same
\* corpus, the corpus without its first chunk, or with that chunk moved to
\* another section
NextCorpora(previous, builds) ==
    IF builds = 0 THEN HierarchyCorpora
    ELSE IF previous = <<>> THEN {previous}
    ELSE {previous, Tail(previous), [previous EXCEPT ![1].section = "B"]}

InitHierarchy ==
    /\ hier_input = <<>>
    /\ multi_chunks = <<>>
    /\ hierarchy_map = <<>>
    /\ reverse_hierarchy = <<>>
    /\ hier_builds = 0
    /\ hier_context = "none"
    /\ IdleDedup /\ IdleSelect /\ IdleRerank /\ IdleRetrieve /\ IdleHybrid /\ IdleIndex /\ IdleUtility

DoBuildHierarchicalChunks ==
    /\ hier_builds < MaxBuilds
    /\ \E policy_chunks \in NextCorpora(hier_input, hier_builds) :
          \E b \in {BuildHierarchicalChunks([map |-> hierarchy_map,
                                             rev |-> reverse_hierarchy], policy_chunks)} :
             /\ hier_input' = policy_chunks
             /\ multi_chunks' = b.chunks
             /\ hierarchy_map' = b.h.map
             /\ reverse_hierarchy' = b.h.rev
    /\ hier_builds' = hier_builds + 1
    /\ UNCHANGED <<hier_context, dedupVars, selectVars, rerankVars, retrieveVars,
                   hybridVars, indexVars, utilityVars>>

DoGetHierarchyContext ==
    /\ hier_builds > 0
    /\ \E chunk_id \in Range(IdsOf(multi_chunks)) \cup DOMAIN reverse_hierarchy :
          hier_context' = GetHierarchyContext([map |-> hierarchy_map,
                                               rev |-> reverse_hierarchy], chunk_id)
    /\ UNCHANGED <<hier_input, multi_chunks, hierarchy_map, reverse_hierarchy, hier_builds,
                   dedupVars, selectVars, rerankVars, retrieveVars, hybridVars, indexVars, utilityVars>>

NextHierarchy == DoBuildHierarchicalChunks \/ DoGetHierarchyContext

SpecHierarchy == InitHierarchy /\ [][NextHierarchy]_vars

\* the ids under which hierarchy_map lists the chunk id
ListedUnder(chunk_id) ==
    {p \in DOMAIN hierarchy_map :
        \E k \in 1..Len(hierarchy_map[p]) : hierarchy_map[p][k] = chunk_id}

\* the chunk has exactly one parent, and it is this one
OnlyParent(chunk_id, parent_id) ==
    /\ chunk_id \in DOMAIN reverse_hierarchy
    /\ reverse_hierarchy[chunk_id] = parent_id
    /\ ListedUnder(chunk_id) = {parent_id}

\* C11: after build_hierarchical_chunks on a new manager, every section-level
\* chunk has exactly one parent, the policy-level chunk of its policy_id,
\* and every sentence-level chunk has exactly one parent, a section-level
\* chunk of its policy_id whose section label is that of the sentence chunk
\* (the label "default" for a chunk that carries none).
HierarchyParents ==
    hier_builds = 1 =>
        /\ \A i \in 1..Len(multi_chunks) :
              multi_chunks[i].level = "section" =>
                 \E j \in 1..Len(multi_chunks) :
                    /\ multi_chunks[j].level = "policy"
                    /\ multi_chunks[j].policy_id = multi_chunks[i].policy_id
                    /\ OnlyParent(multi_chunks[i].chunk_id, multi_chunks[j].chunk_id)
        /\ \A i \in 1..Len(multi_chunks) :
              multi_chunks[i].level = "sentence" =>
                 \E j \in 1..Len(multi_chunks) :
                    /\ multi_chunks[j].level = "section"
                    /\ multi_chunks[j].policy_id = multi_chunks[i].policy_id
                    /\ multi_chunks[j].section = SectionOrDefault(multi_chunks[i].section)
                    /\ OnlyParent(multi_chunks[i].chunk_id, multi_chunks[j].chunk_id)

\* C12: after any sequence of builds the two maps agree, no child is listed
\* twice under a parent, and every edge joins chunks of the latest build.
HierarchyMapsConsistent ==
    hier_builds >= 1 =>
        /\ \A p \in DOMAIN hierarchy_map :
              \A k \in 1..Len(hierarchy_map[p]) :
                 /\ hierarchy_map[p][k] \in DOMAIN reverse_hierarchy
                 /\ reverse_hierarchy[hierarchy_map[p][k]] = p
                 /\ \A m \in 1..Len(hierarchy_map[p]) :
                       hierarchy_map[p][m] = hierarchy_map[p][k] => m = k
        /\ \A c \in DOMAIN reverse_hierarchy : reverse_hierarchy[c] \in ListedUnder(c)
        /\ \A c \in DOMAIN reverse_hierarchy :
              {c, reverse_hierarchy[c]} \subseteq Range(IdsOf(multi_chunks))
        /\ \A p \in DOMAIN hierarchy_map :
              hierarchy_map[p] # <<>> => p \in Range(IdsOf(multi_chunks))

\* C25: when the input chunks have pairwise distinct chunk ids, the chunks
\* build_hierarchical_chunks returns, of all levels and policies together,
\* have pairwise distinct chunk ids.
BuiltChunkIdsDistinct ==
    (/\ hier_builds > 0
     /\ \A i, j \in 1..Len(hier_input) :
           hier_input[i].chunk_id = hier_input[j].chunk_id => i = j) =>
        \A i, j \in 1..Len(multi_chunks) :
            multi_chunks[i].chunk_id = multi_chunks[j].chunk_id => i = j

(***************************************************************************)
(* HierarchicalIndexManager: the per-level indexes and hierarchical_search *)
(*                                                                         *)
(* Of the content of an indexed chunk the model keeps the scores BM25 and  *)
(* TF-IDF give it for the query of the search, in fixed point.  An indexer *)
(* and a chunk map carry the number of the build that made them; the code  *)
(* has no such number, it is what a reader's observations are told by.     *)
(***************************************************************************)
\* IndexLevel, in the order of the enum
IndexLevels == <<"policy", "section", "sentence">>

\* importance_weights, in tenths
ImportanceWeight(level) ==
    CASE level = "policy" -> 10
      [] level = "section" -> 8
      [] level = "sentence" -> 6

\* level_chunks[level] (lines 332-334)
LevelChunks(chunks, level) == SelectSeq(chunks, LAMBDA c : c.level = level)

\* d[key] = value on a dict
SetItem(d, key, value) ==
    [k \in DOMAIN d \cup {key} |-> IF k = key THEN value ELSE d[k]]

\* {chunk.chunk_id: chunk for chunk in level_chunk_list}
ChunkMap(level_chunk_list) ==
    [id \in Range(IdsOf(level_chunk_list)) |->
        level_chunk_list[CHOOSE i \in 1..Len(level_chunk_list) :
            /\ level_chunk_list[i].chunk_id = id
            /\ \A j \in (i + 1)..Len(level_chunk_list) : level_chunk_list[j].chunk_id # id]]

Reverse(s) == [i \in 1..Len(s) |-> s[Len(s) + 1 - i]]

\* BM25Indexer.search and TFIDFIndexer.search on a built indexer: the top_k
\* highest scores, np.argsort(scores)[::-1][:top_k], of which those above 0
\* are returned.  score_of is "bm25" or "tfidf".
IndexerSearch(indexer, score_of, top_k) ==
    SelectSeq(Take(SortByScoreDesc(Reverse(
                       [i \in 1..Len(indexer.chunks) |->
                           [chunk_id |-> indexer.chunks[i].chunk_id,
                            score |-> indexer.chunks[i][score_of]]])),
                   top_k),
              LAMBDA r : r.score > 0)

\* the sum of the scores an id has in a result list
ScoreIn(rs, chunk_id) ==
    IF \E i \in 1..Len(rs) : rs[i].chunk_id = chunk_id
    THEN rs[CHOOSE i \in 1..Len(rs) : rs[i].chunk_id = chunk_id].score
    ELSE 0

\* score_map of _merge_sparse_results for the ids in the order they enter it
ScoreMap(ids, bm25_results, tfidf_results, level_weight) ==
    [k \in 1..Len(ids) |->
        [chunk_id |-> ids[k],
         score |-> (6 * ScoreIn(bm25_results, ids[k]) * level_weight) \div 100
                   + (4 * ScoreIn(tfidf_results, ids[k]) * level_weight) \div 100]]

\* _merge_sparse_results
MergeSparseResults(bm25_results, tfidf_results, level_weight) ==
    SortByScoreDesc(ScoreMap(Keys(IdsOf(bm25_results) \o IdsOf(tfidf_results)),
                             bm25_results, tfidf_results, level_weight))

\* lines 381-396: the RetrievalResult of each merged id the chunk map holds
RetrievalResults(known, level) ==
    [i \in 1..Len(known) |->
        [chunk_id |-> known[i].chunk_id, score |-> known[i].score, level |-> level]]

LevelResults(level_results, level, chunk_map) ==
    RetrievalResults(SelectSeq(level_results, LAMBDA r : r.chunk_id \in DOMAIN chunk_map),
                     level)

\* HierarchicalIndexManager._deduplicate_results: the first result of each id
DeduplicateFirstSeen(rs) ==
    [p \in 1..Len(Keys(IdsOf(rs))) |->
        rs[CHOOSE i \in 1..Len(rs) :
            /\ rs[i].chunk_id = Keys(IdsOf(rs))[p]
            /\ \A j \in 1..(i - 1) : rs[j].chunk_id # rs[i].chunk_id]]

\* lines 398-402
SearchResult(found, top_k) ==
    Take(SortByScoreDesc(DeduplicateFirstSeen(found)), top_k)

(***************************************************************************)
(* Specification SpecIndex: one thread calls                               *)
(* build_multi_representation_index up to MaxIndexBuilds times while       *)
(* another thread makes one hierarchical_search.  A step of a thread is    *)
(* one read or one assignment of a dict of the manager; the indexers are   *)
(* built on objects no other thread holds yet.  BM25Okapi raises on a      *)
(* level none of whose documents has a token, which ends the build with    *)
(* the exception; the TF-IDF vectorizer is given documents BM25Okapi has   *)
(* accepted.                                                               *)
(***************************************************************************)
MaxIndexBuilds == 2

SearchTopKs == {2}

EmptyMaps == [map |-> <<>>, rev |-> <<>>]

\* corpora handed to build_hierarchical_chunks before indexing
TwoChunks(section1, section2) ==
    <<[chunk_id |-> "c1", policy_id |-> "P1", section |-> section1, parts |-> 1],
      [chunk_id |-> "c2", policy_id |-> "P1", section |-> section2, parts |-> 1]>>

\* What the chunks of each level are to the indexers: the scores BM25 and
\* TF-IDF give them for the query, and whether their content has any token
\* (BM25Okapi raises ZeroDivisionError on documents without any).
AllMatch ==
    [policy |-> [bm25 |-> 20000, tfidf |-> 5000, tokens |-> TRUE],
     section |-> [bm25 |-> 10000, tfidf |-> 3000, tokens |-> TRUE],
     sentence |-> [bm25 |-> 30000, tfidf |-> 9000, tokens |-> TRUE]]

\* chunks of empty content: their policy-level summary is the line break
\* that joins them, their sections and sentences are empty
EmptyContents ==
    [policy |-> [bm25 |-> 0, tfidf |-> 0, tokens |-> TRUE],
     section |-> [bm25 |-> 0, tfidf |-> 0, tokens |-> FALSE],
     sentence |-> [bm25 |-> 0, tfidf |-> 0, tokens |-> FALSE]]

\* the policy-level summary matches the query, the empty sections cannot
SummaryOnly == [EmptyContents EXCEPT !.policy = AllMatch.policy]

\* the chunks as the indexers see them; a later chunk scores a little higher
Indexed(chunks, pattern) ==
    [i \in 1..Len(chunks) |->
        [chunk_id |-> chunks[i].chunk_id, level |-> chunks[i].level,
         tokens |-> pattern[chunks[i].level].tokens,
         bm25 |-> IF pattern[chunks[i].level].bm25 = 0 THEN 0
                  ELSE pattern[chunks[i].level].bm25 + 500 * i,
         tfidf |-> IF pattern[chunks[i].level].tfidf = 0 THEN 0
                   ELSE pattern[chunks[i].level].tfidf + 100 * i]]

IndexCorpora ==
    {Indexed(BuildHierarchicalChunks(EmptyMaps, c[1]).chunks, c[2]) :
        c \in {<< <<>>, AllMatch >>,
               << TwoChunks("A", "A"), AllMatch >>,
               << TwoChunks("A", "B"), SummaryOnly >>,
               << SectionNamedChunk, AllMatch >>}}

\* the build thread: `build` numbers the calls, `aborted` says that one of
\* them has ended with an exception
NoBuild == [pc |-> "idle", build |-> 0, chunks |-> <<>>, level |-> 0, aborted |-> FALSE]

NoRead == [bm25 |-> 0, tfidf |-> 0, chunks |-> 0]

\* the search thread: `found` is all_results, `reads` the build whose
\* indexers and chunk map it has read at each level, `builds_seen` the number
\* of builds called before it and `overlapped` that one was still running
NoSearch ==
    [pc |-> "idle", top_k |-> 0, level |-> 0, bm25_results |-> <<>>,
     tfidf_results |-> <<>>, found |-> <<>>, reads |-> [l \in 1..3 |-> NoRead],
     builds_seen |-> 0, overlapped |-> FALSE, result |-> <<>>]

InitIndex ==
    /\ bm25_indexers = <<>>
    /\ tfidf_indexers = <<>>
    /\ level_indexes = [level \in Range(IndexLevels) |-> [build |-> 0, chunks |-> <<>>]]
    /\ index_build = NoBuild
    /\ index_search = NoSearch
    /\ IdleDedup /\ IdleSelect /\ IdleRerank /\ IdleRetrieve /\ IdleHybrid /\ IdleHierarchy /\ IdleUtility

otherThanIndex ==
    <<dedupVars, selectVars, rerankVars, retrieveVars, hybridVars, hierarchyVars,
      utilityVars>>

\* the first level from `from` on whose chunk list is not empty, 0 if none:
\* the loop over level_chunks skips the empty ones (lines 337-339)
NextBuildLevel(chunks, from) ==
    IF \E l \in from..3 : LevelChunks(chunks, IndexLevels[l]) # <<>>
    THEN CHOOSE l \in from..3 :
            /\ LevelChunks(chunks, IndexLevels[l]) # <<>>
            /\ \A k \in from..(l - 1) : LevelChunks(chunks, IndexLevels[k]) = <<>>
    ELSE 0

\* the build thread at the top of the loop, with `level` the next level
BuildFrom(b, level) ==
    IF level = 0 THEN [b EXCEPT !.pc = "idle", !.level = 0, !.chunks = <<>>]
    ELSE [b EXCEPT !.pc = "bm25", !.level = level]

\* build_multi_representation_index is called (lines 329-339)
StartBuild ==
    /\ index_build.pc = "idle"
    /\ index_build.build < MaxIndexBuilds
    /\ \E chunks \in IndexCorpora :
          index_build' = BuildFrom([index_build EXCEPT !.build = @ + 1, !.chunks = chunks],
                                   NextBuildLevel(chunks, 1))
    /\ UNCHANGED <<bm25_indexers, tfidf_indexers, level_indexes, index_search,
                   otherThanIndex>>

\* lines 344-346; build_index raises when BM25Okapi does (lines 80-82)
BuildBM25 ==
    /\ index_build.pc = "bm25"
    /\ IF \E i \in 1..Len(index_build.chunks) :
             /\ index_build.chunks[i].level = IndexLevels[index_build.level]
             /\ index_build.chunks[i].tokens
       THEN /\ bm25_indexers' =
                  SetItem(bm25_indexers, IndexLevels[index_build.level],
                          [build |-> index_build.build,
                           chunks |-> LevelChunks(index_build.chunks,
                                                  IndexLevels[index_build.level])])
            /\ index_build' = [index_build EXCEPT !.pc = "tfidf"]
       ELSE /\ index_build' = [index_build EXCEPT !.pc = "idle", !.level = 0,
                                                   !.chunks = <<>>, !.aborted = TRUE]
            /\ UNCHANGED bm25_indexers
    /\ UNCHANGED <<tfidf_indexers, level_indexes, index_search, otherThanIndex>>

\* lines 349-351
BuildTFIDF ==
    /\ index_build.pc = "tfidf"
    /\ tfidf_indexers' =
          SetItem(tfidf_indexers, IndexLevels[index_build.level],
                  [build |-> index_build.build,
                   chunks |-> LevelChunks(index_build.chunks,
                                          IndexLevels[index_build.level])])
    /\ index_build' = [index_build EXCEPT !.pc = "store"]
    /\ UNCHANGED <<bm25_indexers, level_indexes, index_search, otherThanIndex>>

\* line 354, and on to the next level that has chunks
StoreLevel ==
    /\ index_build.pc = "store"
    /\ level_indexes' =
          SetItem(level_indexes, IndexLevels[index_build.level],
                  [build |-> index_build.build,
                   chunks |-> ChunkMap(LevelChunks(index_build.chunks,
                                                   IndexLevels[index_build.level]))])
    /\ index_build' = BuildFrom(index_build,
                                IF index_build.level = 3 THEN 0
                                ELSE NextBuildLevel(index_build.chunks,
                                                    index_build.level + 1))
    /\ UNCHANGED <<bm25_indexers, tfidf_indexers, index_search, otherThanIndex>>

\* the search thread at the end of an iteration of the loop over the levels:
\* the next level, or lines 398-402 after the last one
NextSearchLevel(search) ==
    IF search.level = 3
    THEN [search EXCEPT !.pc = "done", !.bm25_results = <<>>, !.tfidf_results = <<>>,
                        !.result = SearchResult(search.found, search.top_k)]
    ELSE [search EXCEPT !.pc = "bm25", !.level = @ + 1, !.bm25_results = <<>>,
                        !.tfidf_results = <<>>]

\* hierarchical_search is called
StartSearch ==
    /\ index_search.pc = "idle"
    /\ \E top_k \in SearchTopKs :
          index_search' = [NoSearch EXCEPT !.pc = "bm25", !.top_k = top_k, !.level = 1,
                                           !.builds_seen = index_build.build,
                                           !.overlapped = index_build.pc # "idle"]
    /\ UNCHANGED <<bm25_indexers, tfidf_indexers, level_indexes, index_build, otherThanIndex>>

\* SearchBM25 without the guard of lines 366-367: a level that has no BM25
\* indexer ends the search with KeyError
SearchBM25NoSkip ==
    /\ index_search.pc = "bm25"
    /\ index_search' =
          IF IndexLevels[index_search.level] \notin DOMAIN bm25_indexers
          THEN [index_search EXCEPT !.pc = "raised"]
          ELSE [index_search EXCEPT
                   !.pc = "tfidf",
                   !.bm25_results =
                       IndexerSearch(bm25_indexers[IndexLevels[index_search.level]],
                                     "bm25", index_search.top_k),
                   !.reads[index_search.level].bm25 =
                       bm25_indexers[IndexLevels[index_search.level]].build]
    /\ UNCHANGED <<bm25_indexers, tfidf_indexers, level_indexes, index_build, otherThanIndex>>

\* lines 366-372: the level is skipped, or its BM25 indexer is searched
SearchBM25 ==
    /\ index_search.pc = "bm25"
    /\ index_search' =
          IF IndexLevels[index_search.level] \notin DOMAIN bm25_indexers
          THEN NextSearchLevel(index_search)
          ELSE [index_search EXCEPT
                   !.pc = "tfidf",
                   !.bm25_results =
                       IndexerSearch(bm25_indexers[IndexLevels[index_search.level]],
                                     "bm25", index_search.top_k),
                   !.reads[index_search.level].bm25 =
                       bm25_indexers[IndexLevels[index_search.level]].build]
    /\ UNCHANGED <<bm25_indexers, tfidf_indexers, level_indexes, index_build, otherThanIndex>>

\* line 375: self.tfidf_indexers[level] raises KeyError when the level has
\* no TF-IDF indexer
SearchTFIDF ==
    /\ index_search.pc = "tfidf"
    /\ index_search' =
          IF IndexLevels[index_search.level] \notin DOMAIN tfidf_indexers
          THEN [index_search EXCEPT !.pc = "raised"]
          ELSE [index_search EXCEPT
                   !.pc = "convert",
                   !.tfidf_results =
                       IndexerSearch(tfidf_indexers[IndexLevels[index_search.level]],
                                     "tfidf", index_search.top_k),
                   !.reads[index_search.level].tfidf =
                       tfidf_indexers[IndexLevels[index_search.level]].build]
    /\ UNCHANGED <<bm25_indexers, tfidf_indexers, level_indexes, index_build, otherThanIndex>>

\* lines 378-396
ConvertLevel ==
    /\ index_search.pc = "convert"
    /\ index_search' =
          NextSearchLevel(
              [index_search EXCEPT
                  !.found = @ \o LevelResults(
                      MergeSparseResults(index_search.bm25_results,
                                         index_search.tfidf_results,
                                         ImportanceWeight(IndexLevels[index_search.level])),
                      IndexLevels[index_search.level],
                      level_indexes[IndexLevels[index_search.level]].chunks),
                  !.reads[index_search.level].chunks =
                      level_indexes[IndexLevels[index_search.level]].build])
    /\ UNCHANGED <<bm25_indexers, tfidf_indexers, level_indexes, index_build, otherThanIndex>>

NextIndex ==
    \/ StartBuild \/ BuildBM25 \/ BuildTFIDF \/ StoreLevel
    \/ StartSearch \/ SearchBM25 \/ SearchTFIDF \/ ConvertLevel

SpecIndex == InitIndex /\ [][NextIndex]_vars

\* the search has ended, with a list or with an exception
SearchEnded == index_search.pc \in {"done", "raised"}

\* no build was running when the search was called and none was called since
NoBuildSince ==
    /\ ~index_search.overlapped
    /\ index_build.pc = "idle"
    /\ index_build.build = index_search.builds_seen

\* C13: a search next to builds that all run to their end never sees a
\* partial index: it does not fail on a missing indexer, at every level the
\* BM25 indexer, the TF-IDF indexer and the chunk map it reads are of one
\* build, and the levels it reads are all of the same build.
SearchSeesOneSnapshot ==
    (SearchEnded /\ ~index_build.aborted) =>
        /\ index_search.pc = "done"
        /\ \A l \in 1..3 :
              /\ index_search.reads[l].bm25 = index_search.reads[l].tfidf
              /\ index_search.reads[l].bm25 = index_search.reads[l].chunks
        /\ \A l, m \in 1..3 : index_search.reads[l].bm25 = index_search.reads[m].bm25

\* the highest score the levels gave to a chunk id
MaxLevelScore(found, chunk_id) ==
    CHOOSE m \in {found[i].score : i \in {j \in 1..Len(found) : found[j].chunk_id = chunk_id}} :
        \A i \in 1..Len(found) : found[i].chunk_id = chunk_id => found[i].score <= m

Components ==
    {"advanced_retriever", "retriever", "advanced_reranker",
     "hierarchical_index_manager", "query_processor"}

Threads == {"t1", "t2"}

\* None in a global, and the object the n-th constructor call made
NoInstance == <<>>

Instance(n) == <<n>>

NotCalling == [pc |-> "idle", component |-> None, made |-> NoInstance]

otherThanSingleton ==
    <<dedupVars, selectVars, rerankVars, retrieveVars, hybridVars, hierarchyVars,
      indexVars, intentVars, variantVars, splitVars, persistVars>>

InitSingleton ==
    /\ singleton = [c \in Components |-> NoInstance]
    /\ constructed = [c \in Components |-> 0]
    /\ thread_pc = [t \in Threads |-> NotCalling]
    /\ thread_got = [t \in Threads |-> NoInstance]
    /\ IdleDedup /\ IdleSelect /\ IdleRerank /\ IdleRetrieve /\ IdleHybrid
    /\ IdleHierarchy /\ IdleIndex /\ IdleIntent /\ IdleVariant /\ IdleSplit
    /\ IdlePersist

\* a thread enters get_<component>()
CallAccessor(t, c) ==
    /\ thread_pc[t].pc = "idle"
    /\ thread_pc' = [thread_pc EXCEPT ![t] = [pc |-> "test", component |-> c, made |-> NoInstance]]
    /\ UNCHANGED <<singleton, constructed, thread_got, otherThanSingleton>>

\* if _x is None:
TestGlobal(t) ==
    /\ thread_pc[t].pc = "test"
    /\ thread_pc' = [thread_pc EXCEPT ![t].pc =
                        IF singleton[thread_pc[t].component] = NoInstance
                        THEN "construct" ELSE "return"]
    /\ UNCHANGED <<singleton, constructed, thread_got, otherThanSingleton>>

\* X(): the constructor call on the right of the assignment
ConstructInstance(t) ==
    /\ thread_pc[t].pc = "construct"
    /\ constructed' = [constructed EXCEPT ![thread_pc[t].component] = @ + 1]
    /\ thread_pc' = [thread_pc EXCEPT ![t].pc = "store",
                                      ![t].made = Instance(constructed[thread_pc[t].component] + 1)]
    /\ UNCHANGED <<singleton, thread_got, otherThanSingleton>>

\* _x = <the new instance>
StoreGlobal(t) ==
    /\ thread_pc[t].pc = "store"
    /\ singleton' = [singleton EXCEPT ![thread_pc[t].component] = thread_pc[t].made]
    /\ thread_pc' = [thread_pc EXCEPT ![t].pc = "return"]
    /\ UNCHANGED <<constructed, thread_got, otherThanSingleton>>

\* return _x: the global is loaded again
ReturnGlobal(t) ==
    /\ thread_pc[t].pc = "return"
    /\ thread_got' = [thread_got EXCEPT ![t] = singleton[thread_pc[t].component]]
    /\ thread_pc' = [thread_pc EXCEPT ![t].pc = "done"]
    /\ UNCHANGED <<singleton, constructed, otherThanSingleton>>

NextSingleton ==
    \E t \in Threads :
        \/ \E c \in Components : CallAccessor(t, c)
        \/ TestGlobal(t)
        \/ ConstructInstance(t)
        \/ StoreGlobal(t)
        \/ ReturnGlobal(t)

SpecSingleton == InitSingleton /\ [][NextSingleton]_vars

\* C30: each lazily created global is constructed at most once, and the
\* callers of one accessor that have returned all hold the same instance.
SingletonConstructedOnce ==
    /\ \A c \in Components : constructed[c] <= 1
    /\ \A t1 \in Threads : \A t2 \in Threads :
          (/\ thread_pc[t1].pc = "done" /\ thread_pc[t2].pc = "done"
           /\ thread_pc[t1].component = thread_pc[t2].component)
              => thread_got[t1] = thread_got[t2]

(***************************************************************************)
(* HierarchicalIndexManager._split_long_chunk.  A content string is its    *)
(* length and the positions of its sentence-ending periods; a sub-chunk is *)
(* the pair of positions content[from:to] was cut at.                      *)
(***************************************************************************)
max_size == 512     \* INDEX_LEVELS["sentence"]["chunk_size"]
overlap == 50       \* INDEX_LEVELS["sentence"]["overlap"]

MaxSplitChunks == 4    \* sub-chunks after which the model stops following the loop

SplitLengths == {10, 513, 600, 1100}

PeriodPositions == {1, 30, 49, 50, 300, 470, 511, 700}

SplitContents == [len : SplitLengths, periods : SUBSET PeriodPositions]

\* how a slice or a search of Python reads one of its indices
PyIndex(i, n) == IF i < 0 THEN Max2(i + n, 0) ELSE Min2(i, n)

\* content[a:b]
SubChunk(content, a, b) ==
    [from |-> PyIndex(a, content.len),
     to |-> Max2(PyIndex(a, content.len), PyIndex(b, content.len))]

SubChunkLen(c) == c.to - c.from

\* content.rfind('。', a, b)
RFind(content, a, b) ==
    IF \E p \in content.periods :
          p >= PyIndex(a, content.len) /\ p < PyIndex(b, content.len)
    THEN CHOOSE p \in content.periods :
            /\ p >= PyIndex(a, content.len) /\ p < PyIndex(b, content.len)
            /\ \A q \in content.periods :
                  (q >= PyIndex(a, content.len) /\ q < PyIndex(b, content.len)) => q <= p
    ELSE -1

\* end, once the period search of an iteration has had its say
CutAt(content, start) ==
    IF RFind(content, start, start + max_size) > start
    THEN RFind(content, start, start + max_size) + 1
    ELSE start + max_size

otherThanSplit ==
    <<dedupVars, selectVars, rerankVars, retrieveVars, hybridVars, hierarchyVars,
      indexVars, intentVars, variantVars, persistVars, singletonVars>>

InitSplit ==
    /\ split_content \in {c \in SplitContents : \A p \in c.periods : p < c.len}
    /\ split_chunks = <<>>
    /\ split_start = 0
    /\ split_prev = <<>>
    /\ split_pc = "entry"
    /\ IdleDedup /\ IdleSelect /\ IdleRerank /\ IdleRetrieve /\ IdleHybrid
    /\ IdleHierarchy /\ IdleIndex /\ IdleIntent /\ IdleVariant /\ IdlePersist
    /\ IdleSingleton

\* if len(content) <= max_size: return [content]
SplitEntry ==
    /\ split_pc = "entry"
    /\ IF split_content.len <= max_size
       THEN /\ split_chunks' = <<SubChunk(split_content, 0, split_content.len)>>
            /\ split_pc' = "done"
       ELSE /\ split_chunks' = <<>>
            /\ split_pc' = "loop"
    /\ UNCHANGED <<split_content, split_start, split_prev, otherThanSplit>>

\* one pass through the body of  while start < len(content)
SplitIteration ==
    /\ split_pc = "loop"
    /\ Len(split_chunks) < MaxSplitChunks
    /\ IF ~(split_start < split_content.len)
       THEN /\ split_pc' = "done"
            /\ UNCHANGED <<split_chunks, split_start, split_prev>>
       ELSE IF split_start + max_size >= split_content.len
       THEN /\ split_chunks' =
                  Append(split_chunks,
                         SubChunk(split_content, split_start, split_content.len))
            /\ split_pc' = "done"
            /\ UNCHANGED <<split_start, split_prev>>
       ELSE \E end \in {CutAt(split_content, split_start)} :
               /\ split_chunks' =
                     Append(split_chunks, SubChunk(split_content, split_start, end))
               /\ split_start' = end - overlap
               /\ split_prev' = <<split_start, end>>
               /\ split_pc' = "loop"
    /\ UNCHANGED <<split_content, otherThanSplit>>

NextSplit == SplitEntry \/ SplitIteration

SpecSplit == InitSplit /\ [][NextSplit]_vars

\* the positions of the content that some sub-chunk holds
Covered == UNION {split_chunks[i].from .. (split_chunks[i].to - 1) : i \in 1..Len(split_chunks)}

\* C24: every sub-chunk is non-empty and at most max_size long, every pass
\* through the loop leaves start further on than it found it (so that the
\* loop ends), and the sub-chunks returned hold every position of the
\* content.
SplitLongChunkProgresses ==
    /\ \A i \in 1..Len(split_chunks) :
          SubChunkLen(split_chunks[i]) >= 1 /\ SubChunkLen(split_chunks[i]) <= max_size
    /\ (split_pc = "loop" /\ split_prev # <<>>) => split_start > split_prev[1]
    /\ split_pc = "done" => Covered = 0 .. (split_content.len - 1)

(***************************************************************************)
(* Specification SpecPersist: one caller builds, saves and loads the       *)
(* indexes of one HierarchicalIndexManager, one call after the other.      *)
(* save_index pickles level_indexes (and the hierarchy maps and weights,   *)
(* which no index is read from); load_index assigns them back.             *)
(***************************************************************************)
MaxPersistOps == 4     \* build, save and load calls followed

\* one pass of the loop of build_multi_representation_index for a level
\* whose chunk list is not empty (lines 341-354)
BuildOneLevel(manager, level_chunk_list, build, level) ==
    [bm25 |-> SetItem(manager.bm25, level, [build |-> build, chunks |-> level_chunk_list]),
     tfidf |-> SetItem(manager.tfidf, level, [build |-> build, chunks |-> level_chunk_list]),
     maps |-> SetItem(manager.maps, level,
                      [build |-> build, chunks |-> ChunkMap(level_chunk_list)]),
     aborted |-> FALSE]

\* build_multi_representation_index from level l on: empty levels are
\* skipped, and BM25Okapi raising on a level ends the call there
RECURSIVE BuildLevels(_, _, _, _)
BuildLevels(manager, chunks, build, l) ==
    IF l > 3 THEN manager
    ELSE IF LevelChunks(chunks, IndexLevels[l]) = <<>>
    THEN BuildLevels(manager, chunks, build, l + 1)
    ELSE IF \A i \in 1..Len(chunks) :
               chunks[i].level = IndexLevels[l] => ~chunks[i].tokens
    THEN [manager EXCEPT !.aborted = TRUE]
    ELSE BuildLevels(BuildOneLevel(manager, LevelChunks(chunks, IndexLevels[l]),
                                   build, IndexLevels[l]),
                     chunks, build, l + 1)

\* the chunk_ids a list of chunks has at each level
IdsByLevel(chunks) ==
    [level \in Range(IndexLevels) |-> Range(IdsOf(LevelChunks(chunks, level)))]

otherThanPersist ==
    <<dedupVars, selectVars, rerankVars, retrieveVars, hybridVars, hierarchyVars,
      index_build, index_search, intentVars, variantVars, splitVars, singletonVars>>

InitPersist ==
    /\ bm25_indexers = <<>>
    /\ tfidf_indexers = <<>>
    /\ level_indexes = [level \in Range(IndexLevels) |-> [build |-> 0, chunks |-> <<>>]]
    /\ saved_file = <<>>
    /\ latest_chunks = [op |-> "none", ids |-> IdsByLevel(<<>>)]
    /\ persist_ops = 0
    /\ index_build = "idle" /\ index_search = "idle"
    /\ IdleDedup /\ IdleSelect /\ IdleRerank /\ IdleRetrieve /\ IdleHybrid
    /\ IdleHierarchy /\ IdleIntent /\ IdleVariant /\ IdleSplit /\ IdleSingleton

\* build_multi_representation_index(chunks), from call to return
BuildIndex ==
    /\ persist_ops < MaxPersistOps
    /\ \E chunks \in IndexCorpora :
         \E built \in {BuildLevels([bm25 |-> bm25_indexers, tfidf |-> tfidf_indexers,
                                    maps |-> level_indexes, aborted |-> FALSE],
                                   chunks, persist_ops + 1, 1)} :
            /\ bm25_indexers' = built.bm25
            /\ tfidf_indexers' = built.tfidf
            /\ level_indexes' = built.maps
            /\ latest_chunks' = [op |-> IF built.aborted THEN "aborted build" ELSE "build",
                                 ids |-> IdsByLevel(chunks)]
    /\ persist_ops' = persist_ops + 1
    /\ UNCHANGED <<saved_file, otherThanPersist>>

\* save_index(filepath)
SaveIndex ==
    /\ persist_ops < MaxPersistOps
    /\ saved_file' = <<level_indexes>>
    /\ persist_ops' = persist_ops + 1
    /\ UNCHANGED <<bm25_indexers, tfidf_indexers, level_indexes, latest_chunks,
                   otherThanPersist>>

\* load_index(filepath); open() raising on a missing file is caught and
\* logged, and the manager is left as it was
LoadIndex ==
    /\ persist_ops < MaxPersistOps
    /\ IF saved_file = <<>>
       THEN UNCHANGED <<level_indexes, latest_chunks>>
       ELSE /\ level_indexes' = saved_file[1]
            /\ latest_chunks' =
                  [op |-> "load",
                   ids |-> [level \in Range(IndexLevels) |->
                               DOMAIN saved_file[1][level].chunks]]
    /\ persist_ops' = persist_ops + 1
    /\ UNCHANGED <<bm25_indexers, tfidf_indexers, saved_file, otherThanPersist>>

NextPersist == BuildIndex \/ SaveIndex \/ LoadIndex

SpecPersist == InitPersist /\ [][NextPersist]_vars

\* the chunk_ids an indexer of a level can return, none without an indexer
IndexerIds(indexers, level) ==
    IF level \in DOMAIN indexers THEN Range(IdsOf(indexers[level].chunks)) ELSE {}

\* C26: after every build that has returned, and after every save and load,
\* the BM25 indexer, the TF-IDF indexer and the chunk map of each level hold
\* the same chunk_ids, those the level has in the latest build or load.
IndexesAgreeWithLatest ==
    latest_chunks.op \in {"build", "load"} =>
        \A level \in Range(IndexLevels) :
            /\ IndexerIds(bm25_indexers, level) = latest_chunks.ids[level]
            /\ IndexerIds(tfidf_indexers, level) = latest_chunks.ids[level]
            /\ DOMAIN level_indexes[level].chunks = latest_chunks.ids[level]

(***************************************************************************)
(* HybridRetriever._generate_optimized_queries.  The Chinese templates of  *)
(* the code are written in English here; the query strings of the model    *)
(* have been through strip() already, the blank ones are named by IsBlank. *)
(***************************************************************************)
IntentTypes == {"find_policy", "check_eligibility", "get_requirements", "get_funding"}

\* lines 123-128
EligibilityTemplates ==
    <<"application conditions service object", "scope enterprise requirements",
      "entry threshold">>

\* lines 129-135
FundingTemplates ==
    <<"funding support subsidy reward", "special funds fiscal support", "support funds">>

\* f"{industry} 政策支持" and f"{scale} 扶持政策"
IndustryTemplate(industry) == industry \o " policy support"

ScaleTemplate(scale) == scale \o " support policy"

\* what lines 120-145 add to the list for an understanding
IntentQueries(u) ==
    CASE u.intent_type = "check_eligibility" -> EligibilityTemplates
      [] u.intent_type = "get_funding" -> FundingTemplates
      [] u.intent_type = "find_policy" ->
            [i \in 1..Len(u.industries) |-> IndustryTemplate(u.industries[i])]
            \o [i \in 1..Len(u.enterprise_scales) |->
                   ScaleTemplate(u.enterprise_scales[i])]
      [] OTHER -> <<>>

\* queries before the deduplication (lines 117-149)
CandidateQueries(u) == <<u.processed_query>> \o IntentQueries(u) \o Take(u.expanded, 5)

\* len(q.strip()) == 0
IsBlank(q) == q \in {"", " "}

\* the loop of lines 152-154
RECURSIVE UniqueQueries(_, _)
UniqueQueries(queries, unique_queries) ==
    IF queries = <<>> THEN unique_queries
    ELSE UniqueQueries(Tail(queries),
                       IF Head(queries) \notin Range(unique_queries)
                          /\ ~IsBlank(Head(queries))
                       THEN Append(unique_queries, Head(queries))
                       ELSE unique_queries)

GenerateOptimizedQueries(u) == Take(UniqueQueries(CandidateQueries(u), <<>>), 8)

\* What expand_query returns for the original query (embeddings.py 145-185):
\* a list without duplicates and blanks that starts with the query it was
\* given, and is empty for a blank query that nothing expands.
ExpandedFor(processed_query) ==
    IF IsBlank(processed_query) THEN {<<>>}
    ELSE {<<processed_query>>,
          <<"our company's subsidy", "e1">>,
          <<processed_query, "e1", "e2", "e3", "e4", "e5", "e6">>,
          <<processed_query, IndustryTemplate("biomedicine"), "e1">>}

Understandings ==
    {u \in [processed_query : {"", "enterprise subsidy"},
            intent_type : IntentTypes,
            industries : {<<>>, <<"biomedicine">>, <<"biomedicine", "new energy">>},
            enterprise_scales : {<<>>, <<"startup">>},
            expanded : UNION {ExpandedFor(q) : q \in {"", "enterprise subsidy"}}] :
        /\ u.expanded \in ExpandedFor(u.processed_query)
        \* nothing is detected in a blank query, and its intent is the default
        /\ IsBlank(u.processed_query) =>
              /\ u.intent_type = "find_policy"
              /\ u.industries = <<>> /\ u.enterprise_scales = <<>>}

otherThanVariant ==
    <<dedupVars, selectVars, rerankVars, retrieveVars, hybridVars, hierarchyVars,
      indexVars, intentVars, splitVars, persistVars, singletonVars>>

InitVariant ==
    /\ opt_input \in Understandings
    /\ opt_queries = <<>>
    /\ opt_pc = "called"
    /\ IdleDedup /\ IdleSelect /\ IdleRerank /\ IdleRetrieve /\ IdleHybrid
    /\ IdleHierarchy /\ IdleIndex /\ IdleIntent /\ IdleSplit /\ IdlePersist
    /\ IdleSingleton

GenerateQueries ==
    /\ opt_pc = "called"
    /\ opt_queries' = GenerateOptimizedQueries(opt_input)
    /\ opt_pc' = "done"
    /\ UNCHANGED <<opt_input, otherThanVariant>>

NextVariant == GenerateQueries

SpecVariant == InitVariant /\ [][NextVariant]_vars

\* the place a string first has in a list
FirstIndex(s, x) == CHOOSE i \in 1..Len(s) : s[i] = x /\ \A j \in 1..(i - 1) : s[j] # x

\* C22: the variants returned are at most 8, without duplicate and without
\* blank string, in the order they first came up in, the normalized query
\* first; and whatever the primary intent, unless the cap of 8 has cut the
\* list, there is a template among them for every detected industry and
\* every detected scale.
VariantsHoldEveryTemplate ==
    opt_pc = "done" =>
        /\ Len(opt_queries) <= 8
        /\ \A i \in 1..Len(opt_queries) : \A j \in 1..Len(opt_queries) :
              /\ opt_queries[i] = opt_queries[j] => i = j
              /\ ~IsBlank(opt_queries[i])
              /\ opt_queries[i] \in Range(CandidateQueries(opt_input))
              /\ i < j => FirstIndex(CandidateQueries(opt_input), opt_queries[i])
                            < FirstIndex(CandidateQueries(opt_input), opt_queries[j])
        /\ ~IsBlank(opt_input.processed_query) =>
              opt_queries # <<>> /\ opt_queries[1] = opt_input.processed_query
        /\ Len(opt_queries) < 8 =>
              /\ \A i \in 1..Len(opt_input.industries) :
                    IndustryTemplate(opt_input.industries[i]) \in Range(opt_queries)
              /\ \A i \in 1..Len(opt_input.enterprise_scales) :
                    ScaleTemplate(opt_input.enterprise_scales[i]) \in Range(opt_queries)

(***************************************************************************)
(* IntelligentQueryProcessor._extract_intents.  Of a query the model keeps *)
(* which patterns of each intent re.search finds in it; weights and scores *)
(* are in tenths.                                                          *)
(***************************************************************************)
\* the keys of intent_patterns, in the order of the dict
IntentOrder == <<"find_policy", "check_eligibility", "get_requirements", "get_funding">>

\* the weights of _build_intent_patterns (lines 116-142)
IntentWeights ==
    [find_policy |-> <<9, 8, 7, 8, 7>>,
     check_eligibility |-> <<9, 8, 8, 7, 9>>,
     get_requirements |-> <<9, 8, 7>>,
     get_funding |-> <<9, 8, 7>>]

\* score, after the patterns from the i-th on have been tried (lines 191-199)
RECURSIVE AccumulatedScore(_, _, _)
AccumulatedScore(weights, matched, i) ==
    IF i > Len(weights) THEN 0
    ELSE (IF i \in matched THEN weights[i] ELSE 0) + AccumulatedScore(weights, matched, i + 1)

IntentScore(query, intent_type) ==
    AccumulatedScore(IntentWeights[intent_type], query[intent_type], 1)

\* the keys of intent_scores, in the order they were inserted (lines 201-205)
ScoredIntents(query) == SelectSeq(IntentOrder, LAMBDA t : IntentScore(query, t) > 0)

\* max(intent_scores.keys(), key=score): the first key with the highest score
PrimaryType(query, keys) ==
    keys[CHOOSE i \in 1..Len(keys) :
            /\ \A j \in 1..Len(keys) : IntentScore(query, keys[j]) <= IntentScore(query, keys[i])
            /\ \A j \in 1..(i - 1) : IntentScore(query, keys[j]) < IntentScore(query, keys[i])]

QueryIntent(query, intent_type) ==
    [intent_type |-> intent_type, confidence |-> Min2(IntentScore(query, intent_type), 10)]

\* the secondary intents, with the primary type among them
SecondaryIntentsWithPrimary(query, keys, primary_type) ==
    [i \in 1..Len(SelectSeq(keys, LAMBDA t : IntentScore(query, t) > 3)) |->
        QueryIntent(query, SelectSeq(keys, LAMBDA t : IntentScore(query, t) > 3)[i])]

\* lines 217-224
SecondaryIntents(query, keys, primary_type) ==
    [i \in 1..Len(SelectSeq(keys, LAMBDA t : t # primary_type /\ IntentScore(query, t) > 3)) |->
        QueryIntent(query,
                    SelectSeq(keys, LAMBDA t : t # primary_type
                                               /\ IntentScore(query, t) > 3)[i])]

ExtractIntents(query) ==
    IF ScoredIntents(query) # <<>>
    THEN [primary_intent |-> QueryIntent(query, PrimaryType(query, ScoredIntents(query))),
          secondary_intents |->
              SecondaryIntents(query, ScoredIntents(query),
                               PrimaryType(query, ScoredIntents(query)))]
    ELSE [primary_intent |-> [intent_type |-> "find_policy", confidence |-> 5],
          secondary_intents |-> <<>>]

\* The patterns a query can match together: every subset of the patterns of
\* every intent, except that a query with 比较适用 in it has 适用 in it (the
\* fifth and the first pattern of check_eligibility).
MatchedPatterns ==
    {q \in [find_policy : SUBSET (1..5), check_eligibility : SUBSET (1..5),
            get_requirements : SUBSET (1..3), get_funding : SUBSET (1..3)] :
        5 \in q.check_eligibility => 1 \in q.check_eligibility}

NotExtracted == [primary_intent |-> [intent_type |-> None, confidence |-> 0],
                 secondary_intents |-> <<>>]

otherThanIntent ==
    <<dedupVars, selectVars, rerankVars, retrieveVars, hybridVars, hierarchyVars,
      indexVars, variantVars, splitVars, persistVars, singletonVars>>

InitIntent ==
    /\ intent_query \in MatchedPatterns
    /\ intents = NotExtracted
    /\ IdleDedup /\ IdleSelect /\ IdleRerank /\ IdleRetrieve /\ IdleHybrid
    /\ IdleHierarchy /\ IdleIndex /\ IdleVariant /\ IdleSplit /\ IdlePersist
    /\ IdleSingleton

ExtractIntentsCall ==
    /\ intents = NotExtracted
    /\ intents' = ExtractIntents(intent_query)
    /\ UNCHANGED <<intent_query, otherThanIntent>>

NextIntent == ExtractIntentsCall

SpecIntent == InitIntent /\ [][NextIntent]_vars

SecondaryTypes ==
    {intents.secondary_intents[i].intent_type : i \in 1..Len(intents.secondary_intents)}

====
